---------------------------- MODULE Spec2Model ----------------------------
(***************************************************************************)
(* A model of the VRM exporter of io_scene_vrm: the weight normalizer of   *)
(* vrm_types.py, the stages of misc/glb_factory.py (container encoding,    *)
(* vertex deduplication, skin weights, materials, textures, the nodes of   *)
(* the bones and meshes, the avatar block) and the export operator of      *)
(* __init__.py with the values of the host's scene that a call touches.    *)
(*                                                                         *)
(* Each part of the program has its own variables and its own              *)
(* specification; the variables of the other parts stay at their idle      *)
(* values in it.                                                           *)
(***************************************************************************)
EXTENDS Integers, Sequences, FiniteSets, TLC

VARIABLES
    \* normalize_weights_compatible_with_gl_float (vrm_types.py)
    n_arg,          \* the argument `weights` of the call
    n_weights,      \* the local `weights` (the current iterate)
    n_round,        \* the number of loop rounds started
    n_pc,           \* "call", "loop", "return" or "raise"
    n_exc           \* the exception raised, "" if none

normVars == <<n_arg, n_weights, n_round, n_pc, n_exc>>

-----------------------------------------------------------------------------
(***************************************************************************)
(* Floating point.  A Python float is a binary64 and a GL float a          *)
(* binary32.  The model keeps the two formats and their rounding (to       *)
(* nearest, ties to even, gradual underflow, overflow of the narrow        *)
(* format) but scales the widths down: a value is a natural number of      *)
(* quanta of the wide format, 2^-WideQuantumExp each.                       *)
(***************************************************************************)
DoubleBits == 8        \* significand bits of the wide format (53 in binary64)
FloatBits == 4         \* significand bits of the narrow format (24 in binary32)
WideQuantumExp == 12   \* the wide format's smallest step is 2^-WideQuantumExp
FloatQuantumExp == 9   \* the narrow format's smallest step is 2^-FloatQuantumExp
FloatMaxExp == 3       \* the narrow format overflows from 2^FloatMaxExp on

RECURSIVE Pow2(_)
Pow2(k) == IF k <= 0 THEN 1 ELSE 2 * Pow2(k - 1)

RECURSIVE BitLen(_)
BitLen(v) == IF v = 0 THEN 0 ELSE 1 + BitLen(v \div 2)

One == Pow2(WideQuantumExp)
\* sys.float_info.epsilon: the step from 1.0 to the next wide float
Epsilon == Pow2(WideQuantumExp - DoubleBits + 1)
FloatQuantum == Pow2(WideQuantumExp - FloatQuantumExp)
FloatOverflow == Pow2(FloatMaxExp) * One

Max(a, b) == IF a >= b THEN a ELSE b
Abs(a) == IF a >= 0 THEN a ELSE -a

\* num/den rounded to a multiple of 1, to nearest, ties to even
RoundHalfEven(num, den) ==
    LET q == num \div den
        r == num % den
    IN  IF 2 * r > den \/ (2 * r = den /\ q % 2 = 1) THEN q + 1 ELSE q

\* v rounded to `bits` significand bits and to a multiple of `quantum`
RoundTo(v, bits, quantum) ==
    LET unit == Max(Pow2(BitLen(v) - bits), quantum)
    IN  RoundHalfEven(v, unit) * unit

RoundDouble(v) == RoundTo(v, DoubleBits, 1)
RoundFloat(v) == RoundTo(v, FloatBits, FloatQuantum)

\* a / s of two wide floats (s > 0): the quotient rounded to the wide format
Div(a, s) ==
    LET n == a * One
        unit == Pow2(BitLen(n \div s) - DoubleBits)
    IN  RoundHalfEven(n, s * unit) * unit

\* a - b of two wide floats, as a magnitude: abs(a - b)
AbsSub(a, b) == RoundDouble(Abs(a - b))

\* sum(weights): left to right, each partial sum rounded
Sum(w) == RoundDouble(RoundDouble(RoundDouble(w[1] + w[2]) + w[3]) + w[4])
\* math.fsum(weights): the exact sum, rounded once
FSum(w) == RoundDouble(w[1] + w[2] + w[3] + w[4])
ExactSum(w) == w[1] + w[2] + w[3] + w[4]

IsFloat(v) == RoundFloat(v) = v /\ v < FloatOverflow


-----------------------------------------------------------------------------
(***************************************************************************)
(* normalize_weights_compatible_with_gl_float                              *)
(***************************************************************************)
MaxRounds == 10

\* The weights a call is made with: zero, a value below the narrow format's
\* smallest step, epsilon, values every format holds, values only the wide
\* format holds (OneMinusEps, WideA, 3 * WideA), and a value the narrow
\* format cannot hold.
Tiny == FloatQuantum \div 4
Quarter == One \div 4
OneMinusEps == One - Epsilon
WideA == One + One \div Pow2(FloatBits) - One \div Pow2(FloatBits + 2)
NormValues ==
    {0, Tiny, Epsilon, Quarter, 3 * Quarter, OneMinusEps, One, WideA,
     2 * One, 3 * One, 3 * WideA, FloatOverflow}

\* struct.pack("<ffff", ...) raises OverflowError for a value out of range
PackOverflows(w) == \E i \in 1..4 : RoundFloat(w[i]) >= FloatOverflow
to_gl_float(w) == <<RoundFloat(w[1]), RoundFloat(w[2]), RoundFloat(w[3]), RoundFloat(w[4])>>

\* Quotients dividing by the largest weight instead of the sum.
QuotientsByMax(w) ==
    LET s == Max(Max(w[1], w[2]), Max(w[3], w[4]))
    IN  <<Div(w[1], s), Div(w[2], s), Div(w[3], s), Div(w[4], s)>>

\* [weights[i] / sum(weights) for i in range(4)]
Quotients(w) == LET s == Sum(w) IN <<Div(w[1], s), Div(w[2], s), Div(w[3], s), Div(w[4], s)>>

\* abs(sum(weights) - 1.0) < float_info.epsilon
SumsToOne(w) == AbsSub(Sum(w), One) < Epsilon

\* abs(1 - math.fsum(weights))
Error(w) == AbsSub(One, FSum(w))

NormInit ==
    /\ n_arg \in [1..4 -> NormValues]
    /\ n_weights = n_arg
    /\ n_round = 0
    /\ n_pc = "call"
    /\ n_exc = ""

NormIdle ==
    /\ n_arg = <<0, 0, 0, 0>>
    /\ n_weights = <<0, 0, 0, 0>>
    /\ n_round = 0
    /\ n_pc = "idle"
    /\ n_exc = ""

\* NormCall without the early return: every input is converted.
NormCallNoEarlyReturn ==
    /\ n_pc = "call"
    /\ IF PackOverflows(n_arg)
       THEN /\ n_pc' = "raise"
            /\ n_exc' = "OverflowError"
            /\ UNCHANGED n_weights
       ELSE /\ n_pc' = "loop"
            /\ n_weights' = to_gl_float(n_arg)
            /\ UNCHANGED n_exc
    /\ UNCHANGED <<n_arg, n_round>>

\* The early return, or the first conversion to GL floats.
NormCall ==
    /\ n_pc = "call"
    /\ IF SumsToOne(n_arg)
       THEN /\ n_pc' = "return"
            /\ UNCHANGED <<n_weights, n_exc>>
       ELSE IF PackOverflows(n_arg)
       THEN /\ n_pc' = "raise"
            /\ n_exc' = "OverflowError"
            /\ UNCHANGED n_weights
       ELSE /\ n_pc' = "loop"
            /\ n_weights' = to_gl_float(n_arg)
            /\ UNCHANGED n_exc
    /\ UNCHANGED <<n_arg, n_round>>

\* An acceptance test that no longer compares the two errors.
AcceptsWhileAboveEpsilon(error, next_error) == error >= Epsilon

\* error >= float_info.epsilon and error > next_error
Accepts(error, next_error) == error >= Epsilon /\ error > next_error

\* One round of `for _ in range(10)`.
NormRound ==
    /\ n_pc = "loop"
    /\ n_round' = n_round + 1
    /\ IF Sum(n_weights) = 0
       THEN /\ n_pc' = "raise"
            /\ n_exc' = "ZeroDivisionError"
            /\ UNCHANGED n_weights
       ELSE LET next_weights == to_gl_float(Quotients(n_weights))
                error == Error(n_weights)
                next_error == Error(next_weights)
            IN  /\ IF Accepts(error, next_error)
                   THEN /\ n_weights' = next_weights
                        /\ n_pc' = IF n_round + 1 = MaxRounds THEN "return" ELSE "loop"
                   ELSE /\ n_pc' = "return"
                        /\ UNCHANGED n_weights
                /\ UNCHANGED n_exc
    /\ UNCHANGED n_arg


-----------------------------------------------------------------------------
(***************************************************************************)
(* Claims about normalize_weights_compatible_with_gl_float                 *)
(***************************************************************************)
NormDone == n_pc \in {"return", "raise"}

\* The exact quotient w[i] / (w[1] + w[2] + w[3] + w[4]) is a whole number of
\* quanta that the narrow format holds.
QuotientExact(w, i) ==
    /\ (w[i] * One) % ExactSum(w) = 0
    /\ IsFloat((w[i] * One) \div ExactSum(w))
ExactQuotients(w) == [i \in 1..4 |-> (w[i] * One) \div ExactSum(w)]

\* sum(weights) is the exact sum: its roundings lost nothing.
SumIsExact(w) == Sum(w) = ExactSum(w)

\* C1: a 4-tuple whose sum differs from 1 by less than epsilon is returned
\* as it was given: the same four values, not rounded to GL floats, and no
\* round of the loop has run.
C1_UnchangedWhenSumIsOne ==
    (NormDone /\ SumsToOne(n_arg)) =>
        (n_pc = "return" /\ n_weights = n_arg /\ n_round = 0)

\* C1 witness: a returned tuple summing to 1 that holds a value the narrow
\* format would have rounded.
C1_Witness ==
    /\ n_pc = "return"
    /\ SumsToOne(n_arg)
    /\ \E i \in 1..4 : ~IsFloat(n_arg[i])
    /\ n_weights = n_arg

C2_Precondition(w) ==
    /\ ExactSum(w) > 0
    /\ ~SumsToOne(w)
    /\ \A i \in 1..4 : QuotientExact(w, i)

\* C2 as stated: non-negative weights with a positive sum that is not 1 and
\* exactly representable quotients are returned as exactly those quotients,
\* each at its own position.
C2_Original ==
    (NormDone /\ C2_Precondition(n_arg)) =>
        (n_pc = "return" /\ n_weights = ExactQuotients(n_arg))

C2_Examples ==
    { <<<<2 * One, 0, 0, 0>>, <<One, 0, 0, 0>>>>,
      <<<<One, 3 * One, 0, 0>>, <<Quarter, 3 * Quarter, 0, 0>>>>,
      <<<<2 * One, 2 * One, 2 * One, 2 * One>>, <<Quarter, Quarter, Quarter, Quarter>>>>,
      <<<<0, 0, 0, Epsilon>>, <<0, 0, 0, One>>>>,
      <<<<0, Epsilon, 0, Epsilon>>, <<0, 2 * Quarter, 0, 2 * Quarter>>>> }

\* C2 amended: when, besides, every weight is itself a GL float (its
\* conversion neither rounds it, nor loses it to underflow, nor overflows)
\* and sum(weights) is their exact sum, the call returns exactly the
\* quotients, each at its own position; the five examples of the tests hold.
C2_ExactQuotientsOfFloats ==
    /\ (/\ NormDone
        /\ C2_Precondition(n_arg)
        /\ \A i \in 1..4 : IsFloat(n_arg[i])
        /\ SumIsExact(n_arg)) =>
            (n_pc = "return" /\ n_weights = ExactQuotients(n_arg))
    /\ \A ex \in C2_Examples :
            (NormDone /\ n_arg = ex[1]) => (n_pc = "return" /\ n_weights = ex[2])

\* C2 witness: the call with [1, 3, 0, 0] has returned [0.25, 0.75, 0, 0]
\* after a round of the loop.
C2_Witness ==
    /\ n_pc = "return"
    /\ n_arg = <<One, 3 * One, 0, 0>>
    /\ n_weights = <<Quarter, 3 * Quarter, 0, 0>>
    /\ n_round >= 1

\* A round of the loop that has replaced the current iterate.
RoundAccepted == n_pc = "loop" /\ n_round' = n_round + 1 /\ n_weights' # n_weights

\* A round of the loop that has stopped the loop and kept the current iterate.
RoundStopped == n_pc = "loop" /\ n_pc' = "return" /\ n_weights' = n_weights

-----------------------------------------------------------------------------
(***************************************************************************)
(* JSON documents and json.dumps.  A value is a record of one shape:       *)
(* t is its type, n its number, s its string (code points) and items its   *)
(* members, each a record [k, v] (k is the key in a dict, <<>> in a list). *)
(***************************************************************************)
JInt(n) == [t |-> "int", n |-> n, s |-> <<>>, items |-> <<>>]
JStr(str) == [t |-> "str", n |-> 0, s |-> str, items |-> <<>>]
JList(vals) == [t |-> "list", n |-> 0, s |-> <<>>,
                items |-> [i \in 1..Len(vals) |-> [k |-> <<>>, v |-> vals[i]]]]
JDict(pairs) == [t |-> "dict", n |-> 0, s |-> <<>>, items |-> pairs]

RECURSIVE Digits(_)
\* str(n) of a natural number, as ASCII
Digits(n) == IF n < 10 THEN <<48 + n>> ELSE Digits(n \div 10) \o <<48 + (n % 10)>>

HexDigit(d) == IF d < 10 THEN 48 + d ELSE 87 + d
\* the escape \uXXXX of a code point below 65536
UEscape(c) ==
    <<92, 117, HexDigit(c \div 4096), HexDigit((c \div 256) % 16),
      HexDigit((c \div 16) % 16), HexDigit(c % 16)>>

\* json.dumps escapes the quote, the backslash and, with ensure_ascii, every
\* character outside space..~
EscapeChar(c) ==
    IF c = 34 THEN <<92, 34>>
    ELSE IF c = 92 THEN <<92, 92>>
    ELSE IF c < 32 \/ c > 126 THEN UEscape(c)
    ELSE <<c>>

RECURSIVE EscapeStr(_)
EscapeStr(str) ==
    IF str = <<>> THEN <<>> ELSE EscapeChar(Head(str)) \o EscapeStr(Tail(str))

Quoted(str) == <<34>> \o EscapeStr(str) \o <<34>>

RECURSIVE Dumps(_)
RECURSIVE DumpItems(_, _)
\* the members of a list or dict, separated by ", "; a key is followed by ": "
DumpItems(items, keyed) ==
    IF items = <<>> THEN <<>>
    ELSE (IF keyed THEN Quoted(Head(items).k) \o <<58, 32>> ELSE <<>>)
         \o Dumps(Head(items).v)
         \o (IF Len(items) > 1 THEN <<44, 32>> ELSE <<>>)
         \o DumpItems(Tail(items), keyed)

\* json.dumps(value), as code points
Dumps(v) ==
    CASE v.t = "int" -> Digits(v.n)
      [] v.t = "str" -> Quoted(v.s)
      [] v.t = "list" -> <<91>> \o DumpItems(v.items, FALSE) \o <<93>>
      [] v.t = "dict" -> <<123>> \o DumpItems(v.items, TRUE) \o <<125>>

RECURSIVE Utf8Encode(_)
\* str.encode("utf-8") for code points below 2048
Utf8Encode(str) ==
    IF str = <<>> THEN <<>>
    ELSE (IF Head(str) < 128 THEN <<Head(str)>>
          ELSE <<192 + (Head(str) \div 64), 128 + (Head(str) % 64)>>)
         \o Utf8Encode(Tail(str))

-----------------------------------------------------------------------------
(***************************************************************************)
(* GlbObj.finalize: the binary container                                   *)
(***************************************************************************)
VARIABLES
    g_json_dic,     \* self.json_dic
    g_packed,       \* the binary blob pack_all() returned
    g_bin,          \* self.bin
    g_result,       \* self.result
    g_pc,           \* "finalize", "written" or "parsed"
    p_json,         \* the document parse_glb returned
    p_bin,          \* the binary parse_glb returned
    p_error         \* TRUE when parse_glb raised

glbVars == <<g_json_dic, g_packed, g_bin, g_result, g_pc, p_json, p_bin, p_error>>

MaxBinLen == 4

\* struct.pack(">I", n): the mutant of LE32
BE32(n) == <<(n \div 16777216) % 256, (n \div 65536) % 256, (n \div 256) % 256, n % 256>>

\* struct.pack("<I", n)
LE32(n) == <<n % 256, (n \div 256) % 256, (n \div 65536) % 256, (n \div 16777216) % 256>>
\* struct.unpack("<I", b)
LEValue(b) == b[1] + 256 * b[2] + 65536 * b[3] + 16777216 * b[4]

MagicGlTF == <<103, 108, 84, 70>>
TagJSON == <<74, 83, 79, 78>>
TagBIN == <<66, 73, 78, 0>>

Repeat(byte, k) == [i \in 1..k |-> byte]

\* PadTo4 that pads an aligned payload with four more bytes
PadTo4Always(bytes, fill) == bytes \o Repeat(fill, 4 - (Len(bytes) % 4))

\* if len(x) % 4 != 0: x += fill * (4 - len(x) % 4)
PadTo4(bytes, fill) ==
    IF Len(bytes) % 4 # 0 THEN bytes \o Repeat(fill, 4 - (Len(bytes) % 4)) ELSE bytes

\* TotalSize counting one chunk header only
TotalSizeOneHeader(json_str, bin) == Len(json_str) + Len(bin) + 20

\* len(json_str) + len(self.bin) + 28
TotalSize(json_str, bin) == Len(json_str) + Len(bin) + 28

\* magic + total_size + json_size + b"JSON" + json_str + bin_size + b"BIN\x00" + self.bin
Container(json_str, bin) ==
    MagicGlTF \o LE32(2) \o LE32(TotalSize(json_str, bin))
    \o LE32(Len(json_str)) \o TagJSON \o json_str
    \o LE32(Len(bin)) \o TagBIN \o bin

JsonKeys == {<<97>>, <<233>>}
JsonValues ==
    {JInt(0), JInt(12), JStr(<<>>), JStr(<<233>>), JStr(<<34, 97>>),
     JList(<<>>), JList(<<JInt(7), JStr(<<92>>)>>), JDict(<<>>),
     JDict(<<[k |-> <<98>>, v |-> JList(<<JInt(3)>>)]>>)}
\* the documents: dicts of distinct keys, in any order
JsonDocs ==
    {JDict(<<>>)}
    \cup {JDict(<<[k |-> k1, v |-> v1]>>) : k1 \in JsonKeys, v1 \in JsonValues}
    \cup {JDict(<<[k |-> ks[1], v |-> vs[1]], [k |-> ks[2], v |-> vs[2]]>>) :
            ks \in {x \in JsonKeys \X JsonKeys : x[1] # x[2]},
            vs \in {JInt(0), JStr(<<233>>), JList(<<>>)} \X JsonValues}
BinBytes == {0, 255}
Blobs == UNION {[1..k -> BinBytes] : k \in 0..MaxBinLen}

GlbInit ==
    /\ g_json_dic \in JsonDocs
    /\ g_packed \in Blobs
    /\ g_bin = <<>>
    /\ g_result = <<>>
    /\ g_pc = "finalize"
    /\ p_json = JDict(<<>>)
    /\ p_bin = <<>>
    /\ p_error = FALSE

GlbIdle ==
    /\ g_json_dic = JDict(<<>>)
    /\ g_packed = <<>>
    /\ g_bin = <<>>
    /\ g_result = <<>>
    /\ g_pc = "idle"
    /\ p_json = JDict(<<>>)
    /\ p_bin = <<>>
    /\ p_error = FALSE

\* GlbObj.finalize
Finalize ==
    /\ g_pc = "finalize"
    /\ \E json_str \in {PadTo4(Utf8Encode(Dumps(g_json_dic)), 32)},
          bin \in {PadTo4(g_packed, 0)} :
           /\ g_bin' = bin
           /\ g_result' = Container(json_str, bin)
    /\ g_pc' = "written"
    /\ UNCHANGED <<g_json_dic, g_packed, p_json, p_bin, p_error>>

-----------------------------------------------------------------------------
(***************************************************************************)
(* parse_glb, the reverse path: json.loads and the reading of the chunks.  *)
(***************************************************************************)
ParseFail == [ok |-> FALSE, v |-> JInt(0), i |-> 0]

IsWs(c) == c \in {32, 9, 10, 13}
IsDigit(c) == c >= 48 /\ c <= 57
IsHex(c) == IsDigit(c) \/ (c >= 97 /\ c <= 102) \/ (c >= 65 /\ c <= 70)
HexValue(c) == IF IsDigit(c) THEN c - 48 ELSE IF c >= 97 THEN c - 87 ELSE c - 55

RECURSIVE SkipWs(_, _)
\* the first position from i on that holds no white space
SkipWs(b, i) == IF i <= Len(b) /\ IsWs(b[i]) THEN SkipWs(b, i + 1) ELSE i

\* the character a one-letter escape stands for, -1 if there is none
SimpleEscape(c) ==
    CASE c = 34 -> 34 [] c = 92 -> 92 [] c = 47 -> 47 [] c = 98 -> 8
      [] c = 102 -> 12 [] c = 110 -> 10 [] c = 114 -> 13 [] c = 116 -> 9
      [] OTHER -> -1

RECURSIVE ParseStrBody(_, _, _)
\* the characters of a string up to its closing quote; i is past the opening one
ParseStrBody(b, i, acc) ==
    IF i > Len(b) \/ b[i] < 32 THEN ParseFail
    ELSE IF b[i] = 34 THEN [ok |-> TRUE, v |-> JStr(acc), i |-> i + 1]
    ELSE IF b[i] # 92 THEN ParseStrBody(b, i + 1, Append(acc, b[i]))
    ELSE IF i + 1 > Len(b) THEN ParseFail
    ELSE IF b[i + 1] = 117
         THEN IF i + 5 <= Len(b) /\ \A j \in (i + 2)..(i + 5) : IsHex(b[j])
              THEN ParseStrBody(b, i + 6,
                       Append(acc, 4096 * HexValue(b[i + 2]) + 256 * HexValue(b[i + 3])
                                   + 16 * HexValue(b[i + 4]) + HexValue(b[i + 5])))
              ELSE ParseFail
         ELSE IF SimpleEscape(b[i + 1]) >= 0
              THEN ParseStrBody(b, i + 2, Append(acc, SimpleEscape(b[i + 1])))
              ELSE ParseFail

RECURSIVE ParseNum(_, _, _)
\* the digits of a natural number from i on
ParseNum(b, i, acc) ==
    IF i <= Len(b) /\ IsDigit(b[i])
    THEN ParseNum(b, i + 1, 10 * acc + (b[i] - 48))
    ELSE [ok |-> TRUE, v |-> JInt(acc), i |-> i]

\* The value of a one-element set: Value({F(x) : x \in {e}}) computes e once
\* and hands it to F as a value.
Value(S) == CHOOSE y \in S : TRUE

RECURSIVE ParseValue(_, _)
RECURSIVE ParseMembers(_, _, _, _)
RECURSIVE MemberColon(_, _, _)
RECURSIVE MemberValue(_, _, _, _)
RECURSIVE MemberEnd(_, _, _, _, _)
RECURSIVE MemberNext(_, _, _, _)

\* the list (keyed = FALSE) or dict of the members read
Wrap(keyed, items) ==
    IF keyed THEN JDict(items) ELSE [t |-> "list", n |-> 0, s |-> <<>>, items |-> items]
CloseOf(keyed) == IF keyed THEN 125 ELSE 93

\* the members of a list or dict from `at` on, `at` at no white space; `read`
\* holds the members read so far
ParseMembers(b, at, keyed, read) ==
    Value({ IF i > Len(b) THEN ParseFail
            ELSE IF acc = <<>> /\ b[i] = CloseOf(keyed)
            THEN [ok |-> TRUE, v |-> Wrap(keyed, acc), i |-> i + 1]
            ELSE IF ~keyed THEN MemberEnd(b, FALSE, acc, <<>>, ParseValue(b, i))
            ELSE IF b[i] = 34 THEN MemberColon(b, acc, ParseStrBody(b, i + 1, <<>>))
            ELSE ParseFail
          : i \in {at}, acc \in {read} })

\* after the key of a member: white space, then the colon
MemberColon(b, acc, parsedKey) ==
    Value({ IF ~key.ok THEN ParseFail
            ELSE MemberValue(b, acc, key.v.s, SkipWs(b, key.i))
          : key \in {parsedKey} })

\* the colon of a member, white space, then its value
MemberValue(b, acc, k, at) ==
    Value({ IF colon > Len(b) \/ b[colon] # 58 THEN ParseFail
            ELSE MemberEnd(b, TRUE, acc, k, ParseValue(b, SkipWs(b, colon + 1)))
          : colon \in {at} })

\* after the value of a member: white space, then a comma or the end
MemberEnd(b, keyed, acc, k, parsedValue) ==
    Value({ IF ~val.ok THEN ParseFail
            ELSE MemberNext(b, keyed, Append(acc, [k |-> k, v |-> val.v]), SkipWs(b, val.i))
          : val \in {parsedValue} })

MemberNext(b, keyed, read, at) ==
    Value({ IF after > Len(b) THEN ParseFail
            ELSE IF b[after] = CloseOf(keyed)
            THEN [ok |-> TRUE, v |-> Wrap(keyed, acc), i |-> after + 1]
            ELSE IF b[after] = 44
            THEN ParseMembers(b, SkipWs(b, after + 1), keyed, acc)
            ELSE ParseFail
          : after \in {at}, acc \in {read} })

\* the JSON value that starts at `at`, `at` at no white space
ParseValue(b, at) ==
    Value({ IF i > Len(b) THEN ParseFail
            ELSE IF b[i] = 123 THEN ParseMembers(b, SkipWs(b, i + 1), TRUE, <<>>)
            ELSE IF b[i] = 91 THEN ParseMembers(b, SkipWs(b, i + 1), FALSE, <<>>)
            ELSE IF b[i] = 34 THEN ParseStrBody(b, i + 1, <<>>)
            ELSE IF IsDigit(b[i]) /\ ~(b[i] = 48 /\ i < Len(b) /\ IsDigit(b[i + 1]))
            THEN ParseNum(b, i, 0)
            ELSE ParseFail
          : i \in {at} })

\* json.loads(str): one value, white space around it, nothing else
Loads(str) ==
    Value({ IF r.ok /\ SkipWs(str, r.i) = Len(str) + 1 THEN r ELSE ParseFail
          : r \in {ParseValue(str, SkipWs(str, 1))} })

RECURSIVE Utf8Decode(_)
\* bytes.decode("utf-8") for code points below 2048; <<-1>> marks an error
Utf8Decode(bytes) ==
    IF bytes = <<>> THEN <<>>
    ELSE IF Head(bytes) < 128 THEN <<Head(bytes)>> \o Utf8Decode(Tail(bytes))
    ELSE IF Head(bytes) >= 194 /\ Head(bytes) < 224 /\ Len(bytes) >= 2
            /\ bytes[2] >= 128 /\ bytes[2] < 192
    THEN <<(Head(bytes) - 192) * 64 + (bytes[2] - 128)>> \o Utf8Decode(Tail(Tail(bytes)))
    ELSE <<-1>>

GlbFail == [ok |-> FALSE, json |-> JDict(<<>>), bin |-> <<>>]

\* the JSON chunk of `data` ends at jend; the binary chunk follows
ParseGlbChunks(data, jend, parsedDoc) ==
    Value({ LET blen == IF jend + 8 <= Len(data)
                        THEN LEValue(SubSeq(data, jend + 1, jend + 4)) ELSE 0
            IN  IF \/ SubSeq(data, 17, 20) # TagJSON
                   \/ jend + 8 > Len(data)
                   \/ SubSeq(data, jend + 5, jend + 8) # TagBIN
                   \/ jend + 8 + blen > Len(data)
                   \/ ~doc.ok
                THEN GlbFail
                ELSE [ok |-> TRUE, json |-> doc.v,
                      bin |-> SubSeq(data, jend + 9, jend + 8 + blen)]
          : doc \in {parsedDoc} })

\* the document of the bytes of a JSON chunk
LoadsBytes(bytes) ==
    Value({ IF \E i \in 1..Len(text) : text[i] < 0 THEN ParseFail ELSE Loads(text)
          : text \in {Utf8Decode(bytes)} })

\* parse_glb(data): the header, the JSON chunk, the binary chunk
ParseGlbData(data) ==
    IF Len(data) < 20 \/ SubSeq(data, 1, 4) # MagicGlTF \/ LEValue(SubSeq(data, 5, 8)) # 2
    THEN GlbFail
    ELSE IF 20 + LEValue(SubSeq(data, 13, 16)) > Len(data) THEN GlbFail
    ELSE ParseGlbChunks(data, 20 + LEValue(SubSeq(data, 13, 16)),
                        LoadsBytes(SubSeq(data, 21, 20 + LEValue(SubSeq(data, 13, 16)))))

\* vrm_json, binary = parse_glb(f.read()) on the container finalize produced
ParseGlb ==
    /\ g_pc = "written"
    /\ \E r \in {ParseGlbData(g_result)} :
           /\ p_error' = ~r.ok
           /\ p_json' = r.json
           /\ p_bin' = r.bin
    /\ g_pc' = "parsed"
    /\ UNCHANGED <<g_json_dic, g_packed, g_bin, g_result>>

-----------------------------------------------------------------------------
(***************************************************************************)
(* Claims about the container                                              *)
(***************************************************************************)
GlbWritten == g_pc \in {"written", "parsed"}
RoundUp4(n) == ((n + 3) \div 4) * 4
\* the fields of the container as a reader finds them
DeclaredTotal == LEValue(SubSeq(g_result, 9, 12))
DeclaredJsonLen == LEValue(SubSeq(g_result, 13, 16))
DeclaredBinLen == LEValue(SubSeq(g_result, 21 + DeclaredJsonLen, 24 + DeclaredJsonLen))
JsonBytes == Utf8Encode(Dumps(g_json_dic))

\* C3: both chunk lengths are multiples of 4, each declared length is the
\* length of the padded payload, and the declared total length is the number
\* of bytes produced: 12 + 8 + JSON chunk + 8 + binary chunk.
C3_LengthsAligned ==
    GlbWritten =>
        /\ DeclaredJsonLen % 4 = 0
        /\ DeclaredBinLen % 4 = 0
        /\ DeclaredJsonLen = RoundUp4(Len(JsonBytes))
        /\ DeclaredBinLen = RoundUp4(Len(g_packed))
        /\ DeclaredTotal = Len(g_result)
        /\ Len(g_result) = 12 + 8 + DeclaredJsonLen + 8 + DeclaredBinLen

\* C3 witness: a container whose two payloads both needed padding.
C3_Witness ==
    /\ GlbWritten
    /\ Len(JsonBytes) % 4 # 0
    /\ Len(g_packed) % 4 # 0
    /\ DeclaredTotal = Len(g_result)

\* C4: magic, version 2, total length, then the JSON chunk (length, "JSON",
\* the JSON bytes, spaces only as padding), then the binary chunk (length,
\* "BIN\0", the binary, zero bytes only as padding) and nothing after it; a
\* chunk gets at most 3 bytes of padding and none when already aligned.
C4_Layout ==
    GlbWritten =>
        LET jlen == DeclaredJsonLen
            blen == DeclaredBinLen
            bstart == 28 + jlen
        IN  /\ SubSeq(g_result, 1, 4) = MagicGlTF
            /\ SubSeq(g_result, 5, 8) = <<2, 0, 0, 0>>
            /\ SubSeq(g_result, 17, 20) = TagJSON
            /\ SubSeq(g_result, 21, 20 + Len(JsonBytes)) = JsonBytes
            /\ jlen - Len(JsonBytes) \in 0..3
            /\ Len(JsonBytes) % 4 = 0 => jlen = Len(JsonBytes)
            /\ \A i \in (21 + Len(JsonBytes))..(20 + jlen) : g_result[i] = 32
            /\ SubSeq(g_result, 25 + jlen, 28 + jlen) = TagBIN
            /\ SubSeq(g_result, bstart + 1, bstart + Len(g_packed)) = g_packed
            /\ blen - Len(g_packed) \in 0..3
            /\ Len(g_packed) % 4 = 0 => blen = Len(g_packed)
            /\ \A i \in (bstart + Len(g_packed) + 1)..(bstart + blen) : g_result[i] = 0
            /\ Len(g_result) = bstart + blen

\* C4 witness: a container with an aligned JSON payload and a binary payload
\* that needed three bytes of padding.
C4_Witness ==
    /\ GlbWritten
    /\ Len(JsonBytes) % 4 = 0
    /\ Len(g_packed) % 4 = 1
    /\ Len(g_result) = 28 + Len(JsonBytes) + Len(g_packed) + 3

-----------------------------------------------------------------------------
(***************************************************************************)
(* GlbObj.mesh_to_bin_and_dic: the exported vertices of one mesh           *)
(*                                                                         *)
(* The mesh is a strip of triangles with one UV layer.  A loop is a pair   *)
(* <<face, corner>>.  With custom normals the faces' own normals and       *)
(* smoothness are not read, and are left at one value.                     *)
(***************************************************************************)
VARIABLES
    m_uv,                          \* loop -> uv_list of the loop
    m_smooth,                      \* face -> face.smooth
    m_face_normal,                 \* face -> face.normal
    m_custom,                      \* mesh_data.has_custom_normals
    m_face,                        \* the face `for face in bm.faces` is at
    unique_vertex_dic,             \* vertex_key -> unique_vertex_id
    unique_vertex_id,
    m_index,                       \* loop -> the index packed for the loop
    primitive_index_vertex_count,  \* material -> indices packed
    m_vertex_count,                \* the count of the vertex accessors
    m_pc

meshVars ==
    <<m_uv, m_smooth, m_face_normal, m_custom, m_face, unique_vertex_dic,
      unique_vertex_id, m_index, primitive_index_vertex_count, m_vertex_count, m_pc>>

MaxFaces == 2
Faces == 1..MaxFaces
Corners == 1..3
Loops == Faces \X Corners

\* loop.vert.index: face f joins the vertices f - 1, f and f + 1
LoopVert(l) == l[1] + l[2] - 2
\* face.material_index, over two material slots
FaceMaterial(f) == (f - 1) % 2
MaterialSlots == {0, 1}

NormalUp == <<0, 0, 1>>
NormalSide == <<0, 1, 0>>
\* loop.vert.normal
VertNormal(v) == <<1, 0, 0>>
\* tri.split_normals[vid], vid the place of the loop's vertex in the triangle
SplitNormal(l) == IF l[2] = 1 THEN NormalUp ELSE NormalSide
UvLists == {<<0, 0>>, <<0, 1>>}

\* vert_normal of a loop
vert_normal(l) ==
    IF m_custom THEN SplitNormal(l)
    ELSE IF m_smooth[l[1]] THEN VertNormal(LoopVert(l))
    ELSE m_face_normal[l[1]]

\* A key that leaves the normal out.
VertexKeyNoNormal(l) == m_uv[l] \o <<LoopVert(l)>>

\* vertex_key = (*uv_list, *vert_normal, loop.vert.index)
VertexKey(l) == m_uv[l] \o vert_normal(l) \o <<LoopVert(l)>>

NoLoops == [l \in {} |-> 0]

MeshInit ==
    /\ m_uv \in {u \in [Loops -> UvLists] : \A l \in Loops : l[2] # 2 => u[l] = <<0, 0>>}
    /\ m_custom \in BOOLEAN
    /\ m_smooth \in {sm \in [Faces -> BOOLEAN] : m_custom => \A f \in Faces : ~sm[f]}
    /\ m_face_normal \in {n \in [Faces -> {NormalUp, NormalSide}] :
                            /\ n[1] = NormalUp
                            /\ m_custom => \A f \in Faces : n[f] = NormalUp}
    /\ m_face = 0
    /\ unique_vertex_dic = NoLoops
    /\ unique_vertex_id = 0
    /\ m_index = NoLoops
    /\ primitive_index_vertex_count = [mat \in MaterialSlots |-> 0]
    /\ m_vertex_count = 0
    /\ m_pc = "faces"

MeshIdle ==
    /\ m_uv = NoLoops
    /\ m_smooth = NoLoops
    /\ m_face_normal = NoLoops
    /\ m_custom = FALSE
    /\ m_face = 0
    /\ unique_vertex_dic = NoLoops
    /\ unique_vertex_id = 0
    /\ m_index = NoLoops
    /\ primitive_index_vertex_count = NoLoops
    /\ m_vertex_count = 0
    /\ m_pc = "idle"

FaceDone(f) == \A c \in Corners : <<f, c>> \in DOMAIN m_index
FaceUntouched(f) == \A c \in Corners : <<f, c>> \notin DOMAIN m_index

\* The body of `for loop in face.loops` for one loop; the faces, and the loops
\* of a face, come in any order.
MeshLoop ==
    /\ m_pc = "faces"
    /\ \E l \in Loops \ DOMAIN m_index :
        /\ \/ m_face = l[1]
           \/ (m_face = 0 \/ FaceDone(m_face)) /\ FaceUntouched(l[1])
        /\ m_face' = l[1]
        /\ IF VertexKey(l) \in DOMAIN unique_vertex_dic
           THEN /\ m_index' = (l :> unique_vertex_dic[VertexKey(l)]) @@ m_index
                /\ UNCHANGED <<unique_vertex_dic, unique_vertex_id>>
           ELSE /\ unique_vertex_dic' = (VertexKey(l) :> unique_vertex_id) @@ unique_vertex_dic
                /\ m_index' = (l :> unique_vertex_id) @@ m_index
                /\ unique_vertex_id' = unique_vertex_id + 1
        /\ primitive_index_vertex_count' =
               [primitive_index_vertex_count EXCEPT ![FaceMaterial(l[1])] = @ + 1]
    /\ UNCHANGED <<m_uv, m_smooth, m_face_normal, m_custom, m_vertex_count, m_pc>>

\* After the last face: the accessors take unique_vertex_id as their count.
MeshAccessors ==
    /\ m_pc = "faces"
    /\ DOMAIN m_index = Loops
    /\ m_vertex_count' = unique_vertex_id
    /\ m_pc' = "done"
    /\ UNCHANGED <<m_uv, m_smooth, m_face_normal, m_custom, m_face, unique_vertex_dic,
                   unique_vertex_id, m_index, primitive_index_vertex_count>>

-----------------------------------------------------------------------------
(***************************************************************************)
(* Claims about the vertices of a mesh                                     *)
(***************************************************************************)
\* what the key of a corner is made of
CornerKey(l) == [uv |-> m_uv[l], normal |-> vert_normal(l), vert |-> LoopVert(l)]

\* C6: two corners of a mesh with the same UV coordinates, normal and source
\* vertex have the same exported vertex index, and two corners that differ in
\* one of them have different indices, in whatever order faces and corners
\* were iterated.
C6_SameKeySameIndex ==
    \A a, b \in DOMAIN m_index :
        (CornerKey(a) = CornerKey(b)) <=> (m_index[a] = m_index[b])

\* The second face was iterated first; two corners of different faces share a
\* slot, and two corners of one source vertex have different slots.
C6_Witness ==
    /\ m_pc = "done"
    /\ m_face = 1
    /\ \E a, b \in Loops :
        /\ a[1] # b[1]
        /\ CornerKey(a) = CornerKey(b)
        /\ m_index[a] = m_index[b]
    /\ \E a, b \in Loops :
        /\ LoopVert(a) = LoopVert(b)
        /\ CornerKey(a) # CornerKey(b)
        /\ m_index[a] # m_index[b]

-----------------------------------------------------------------------------
(***************************************************************************)
(* The skeleton and the skin weights of a vertex                           *)
(*                                                                         *)
(* A bone is named by its place in armature.data.bones, which lists a      *)
(* parent before its children and a bone's subtree before its next         *)
(* sibling.  A vertex group is named after a bone, or after no bone.       *)
(***************************************************************************)
VARIABLES
    s_parent,   \* bone -> its parent, NoParent for a root
    s_hips,     \* armature.data["hips"]
    s_human,    \* the bones the humanoid roles name
    s_nodes,    \* json_dic["nodes"]
    s_skins,    \* json_dic["skins"]
    s_vgroups,  \* of the vertex at hand: vertex group -> weight
    s_joints,   \* the joints packed for the vertex
    s_weights,  \* the weights packed for the vertex
    s_passed,   \* the weights normalize was called with for the vertex
    s_exc,
    s_pc

skinVars ==
    <<s_parent, s_hips, s_human, s_nodes, s_skins, s_vgroups, s_joints, s_weights,
      s_passed, s_exc, s_pc>>

MaxBones == 3
Bones == 0..(MaxBones - 1)
NoParent == 0 - 1
\* the vertex group that is named after no bone
NoBone == MaxBones
GroupNames == Bones \cup {NoBone}
GroupWeights == {0, FloatQuantum, Quarter}

RECURSIVE IsAncestorOrSelf(_, _, _)
IsAncestorOrSelf(p, a, b) ==
    \/ a = b
    \/ p[b] # NoParent /\ IsAncestorOrSelf(p, a, p[b])

\* the parent maps of armature.data.bones
BoneTrees ==
    {p \in [Bones -> {NoParent} \cup Bones] :
        /\ p[0] = NoParent
        /\ \A b \in Bones \ {0} : p[b] = NoParent \/ IsAncestorOrSelf(p, p[b], b - 1)}

\* the members of a set of numbers, smallest first
RECURSIVE Ascending(_)
Ascending(S) ==
    IF S = {} THEN <<>>
    ELSE LET least == CHOOSE x \in S : \A y \in S : x <= y
         IN  <<least>> \o Ascending(S \ {least})

\* list(bone.children)
Children(p, b) == Ascending({c \in DOMAIN p : p[c] = b})

\* `while bone_children:`, each pass popping the last of bone_children
RECURSIVE Walk(_, _, _)
Walk(p, bone_children, joints) ==
    Value({ IF stack = <<>> THEN done
            ELSE Walk(p,
                      SubSeq(stack, 1, Len(stack) - 1) \o Children(p, stack[Len(stack)]),
                      Append(done, stack[Len(stack)]))
          : stack \in {bone_children}, done \in {joints} })

\* skin["joints"] of the tree of a root
TreeJoints(p, root) == Walk(p, Children(p, root), <<root>>)

Elements(seq) == {seq[i] : i \in 1..Len(seq)}

RECURSIVE SkinsOfHumanRoots(_, _, _)
SkinsOfHumanRoots(p, human, roots) ==
    IF roots = <<>> THEN <<>>
    ELSE LET skin == [joints |-> TreeJoints(p, Head(roots)), skeleton |-> Head(roots)]
         IN  (IF Head(roots) \in human THEN <<skin>> ELSE <<>>)
             \o SkinsOfHumanRoots(p, human, Tail(roots))

\* the skins of the roots, a root whose tree has no human bone left out
RECURSIVE SkinsOf(_, _, _)
SkinsOf(p, human, roots) ==
    IF roots = <<>> THEN <<>>
    ELSE LET skin == [joints |-> TreeJoints(p, Head(roots)), skeleton |-> Head(roots)]
         IN  (IF Elements(skin.joints) \cap human # {} THEN <<skin>> ELSE <<>>)
             \o SkinsOf(p, human, Tail(roots))

\* nodes, sorted by bone_id_dic[node["name"]]
NodesOf(p) ==
    [i \in 1..Cardinality(DOMAIN p) |-> [name |-> i - 1, children |-> Children(p, i - 1)]]

\* what stands for a name or a value that is not found
Missing == 0 - 1

\* seq.index(x), or Missing where Python raises ValueError
IndexOf(seq, x) ==
    IF x \in Elements(seq)
    THEN (CHOOSE i \in 1..Len(seq) : seq[i] = x /\ \A j \in 1..(i - 1) : seq[j] # x) - 1
    ELSE Missing

\* node_id_dic[node_name], or Missing where Python raises KeyError
NodeId(nodes, node_name) == IndexOf([i \in 1..Len(nodes) |-> nodes[i].name], node_name)

\* joint_id_from_node_name_solver(node_name, node_id_dic)
joint_id_from_node_name_solver(nodes, skins, node_name) ==
    IF NodeId(nodes, node_name) = Missing THEN Missing
    ELSE IndexOf(skins[1].joints, NodeId(nodes, node_name))

\* (weight, joint) of the groups with a joint and a weight of epsilon or more
RECURSIVE WeightAndJointList(_, _, _, _)
WeightAndJointList(nodes, skins, vgroups, names) ==
    IF names = <<>> THEN <<>>
    ELSE Value({ IF joint_id = Missing \/ vgroups[Head(names)] < Epsilon
                 THEN <<>>
                 ELSE <<<<vgroups[Head(names)], joint_id>>>>
               : joint_id \in {joint_id_from_node_name_solver(nodes, skins, Head(names))} })
         \o WeightAndJointList(nodes, skins, vgroups, Tail(names))

\* `while len(weight_and_joint_list) < 4:` append (0.0, 0)
RECURSIVE PadTo4Pairs(_)
PadTo4Pairs(list) ==
    Value({ IF Len(pairs) >= 4 THEN pairs ELSE PadTo4Pairs(Append(pairs, <<0, 0>>))
          : pairs \in {list} })

PairGreater(a, b) == a[1] > b[1] \/ (a[1] = b[1] /\ a[2] > b[2])

\* sort(reverse=True)
RECURSIVE InsertDescending(_, _)
InsertDescending(list, pair) ==
    Value({ IF sorted = <<>> THEN <<pair>>
            ELSE IF PairGreater(pair, Head(sorted)) THEN <<pair>> \o sorted
            ELSE <<Head(sorted)>> \o InsertDescending(Tail(sorted), pair)
          : sorted \in {list} })

RECURSIVE SortDescending(_)
SortDescending(list) ==
    Value({ IF pairs = <<>> THEN <<>>
            ELSE InsertDescending(SortDescending(Tail(pairs)), Head(pairs))
          : pairs \in {list} })

FourPairsUnsorted(nodes, skins, vgroups) ==
    Value({ SubSeq(PadTo4Pairs(WeightAndJointList(nodes, skins, vgroups, names)), 1, 4)
          : names \in {Ascending(DOMAIN vgroups)} })

\* the first four pairs of the padded, sorted list
FourPairs(nodes, skins, vgroups) ==
    Value({ SubSeq(SortDescending(PadTo4Pairs(WeightAndJointList(nodes, skins, vgroups, names))),
                   1, 4)
          : names \in {Ascending(DOMAIN vgroups)} })

\* `for _ in range(10)` of normalize_weights_compatible_with_gl_float
RECURSIVE NormalizeRounds(_, _)
NormalizeRounds(from, round) ==
    Value({ IF round = MaxRounds THEN [exc |-> "", weights |-> weights]
            ELSE IF Sum(weights) = 0
            THEN [exc |-> "ZeroDivisionError", weights |-> weights]
            ELSE IF /\ Error(weights) >= Epsilon
                    /\ Error(weights) > Error(to_gl_float(Quotients(weights)))
            THEN NormalizeRounds(to_gl_float(Quotients(weights)), round + 1)
            ELSE [exc |-> "", weights |-> weights]
          : weights \in {from} })

\* normalize_weights_compatible_with_gl_float(weights), as the mesh calls it
normalize_weights_compatible_with_gl_float(weights) ==
    IF SumsToOne(weights) THEN [exc |-> "", weights |-> weights]
    ELSE IF PackOverflows(weights) THEN [exc |-> "OverflowError", weights |-> weights]
    ELSE NormalizeRounds(to_gl_float(weights), 0)

\* hips_bone_index: the place in json_dic["nodes"] of the node named hips
hips_bone_index(nodes, hips_bone_name) == NodeId(nodes, hips_bone_name)

SkinInit ==
    /\ s_parent \in BoneTrees
    /\ s_hips \in Bones
    /\ s_human \in {h \in SUBSET Bones : s_hips \in h}
    /\ s_nodes = <<>>
    /\ s_skins = <<>>
    /\ s_vgroups = <<>>
    /\ s_joints = <<>>
    /\ s_weights = <<>>
    /\ s_passed = <<>>
    /\ s_exc = ""
    /\ s_pc = "armature"

SkinIdle ==
    /\ s_parent = <<>>
    /\ s_hips = 0
    /\ s_human = {}
    /\ s_nodes = <<>>
    /\ s_skins = <<>>
    /\ s_vgroups = <<>>
    /\ s_joints = <<>>
    /\ s_weights = <<>>
    /\ s_passed = <<>>
    /\ s_exc = ""
    /\ s_pc = "idle"

\* armature_to_node_and_scenes_dic: the nodes and the skins
ArmatureToNodes ==
    /\ s_pc = "armature"
    /\ s_nodes' = NodesOf(s_parent)
    /\ s_skins' = SkinsOf(s_parent, s_human, Ascending({b \in Bones : s_parent[b] = NoParent}))
    /\ s_pc' = "mesh"
    /\ UNCHANGED <<s_parent, s_hips, s_human, s_vgroups, s_joints, s_weights, s_passed,
                   s_exc>>

\* the weights a vertex group may carry: GroupWeights and epsilon itself
SkinWeights == GroupWeights \cup {Epsilon}

NeverFallsBack(weights) == FALSE

\* `if sum(weights) < float_info.epsilon:`
FallsBack(weights) == Sum(weights) < Epsilon

\* `if is_skin_mesh:` for one new vertex of a skinned mesh
SkinVertex ==
    /\ s_pc = "mesh"
    /\ \E vgroups \in [GroupNames -> SkinWeights] :
        \E pairs \in {FourPairs(s_nodes, s_skins, vgroups)} :
            LET weights == [i \in 1..4 |-> pairs[i][1]]
                joints == [i \in 1..4 |-> pairs[i][2]]
                fallback == FallsBack(weights)
                passed == IF fallback THEN <<One, 0, 0, 0>> ELSE weights
            IN  \E normalized \in {normalize_weights_compatible_with_gl_float(passed)} :
                    /\ s_vgroups' = vgroups
                    /\ s_passed' = passed
                    /\ s_exc' = normalized.exc
                    /\ IF normalized.exc = ""
                       THEN /\ s_joints' =
                                   IF fallback
                                   THEN <<hips_bone_index(s_nodes, s_hips), 0, 0, 0>>
                                   ELSE joints
                            /\ s_weights' = normalized.weights
                            /\ s_pc' = "vertex"
                       ELSE /\ UNCHANGED <<s_joints, s_weights>>
                            /\ s_pc' = "raise"
    /\ UNCHANGED <<s_parent, s_hips, s_human, s_nodes, s_skins>>

-----------------------------------------------------------------------------
(***************************************************************************)
(* Claims about skin weights                                               *)
(***************************************************************************)
\* the vertex at hand has no group with a joint and a weight of epsilon or more
NoResolvedWeight ==
    \A name \in GroupNames :
        \/ joint_id_from_node_name_solver(s_nodes, s_skins, name) = Missing
        \/ s_vgroups[name] < Epsilon

\* the bone a packed joint value stands for: the joint at that place of the
\* joints of the first skin, NoBone when there is no such place
BoundBone(joint) ==
    IF joint + 1 \in 1..Len(s_skins[1].joints) THEN s_skins[1].joints[joint + 1] ELSE NoBone

\* C28: every joint value written for a vertex is a place of the joints of
\* skin 0; a written joint with a weight stands for a bone whose vertex group
\* gave the vertex a weight of epsilon or more, and when no group did, the
\* first joint written is the place of the hips bone in the joints of skin 0.
C28_Original ==
    (s_pc = "vertex") =>
        /\ \A i \in 1..4 : BoundBone(s_joints[i]) # NoBone
        /\ IF NoResolvedWeight
           THEN BoundBone(s_joints[1]) = s_hips
           ELSE \A i \in 1..4 :
                    s_weights[i] > 0 => s_vgroups[BoundBone(s_joints[i])] >= Epsilon

\* C29: normalize is never called with weights whose sum is zero or less:
\* the weights passed are [1, 0, 0, 0], or none of them is negative and one
\* of them is epsilon or more; the division by the sum never fails.
C29_NormalizeGetsAPositiveSum ==
    (s_pc \in {"vertex", "raise"}) =>
        /\ \/ s_passed = <<One, 0, 0, 0>>
           \/ /\ \A i \in 1..4 : s_passed[i] >= 0
              /\ \E i \in 1..4 : s_passed[i] >= Epsilon
        /\ Sum(s_passed) > 0
        /\ s_exc # "ZeroDivisionError"

\* a vertex whose only weight is epsilon was passed on as it is
C29_Witness ==
    /\ s_pc = "vertex"
    /\ s_passed = <<Epsilon, 0, 0, 0>>
    /\ ~NoResolvedWeight

\* C7: a vertex of a skinned mesh whose resolved weights sum to less than
\* epsilon is exported with the weights [1, 0, 0, 0], bound to the hips bone,
\* and the export continues.
C7_Original ==
    (s_pc \in {"vertex", "raise"} /\ NoResolvedWeight) =>
        /\ s_pc = "vertex"
        /\ s_weights = <<One, 0, 0, 0>>
        /\ BoundBone(s_joints[1]) = s_hips

-----------------------------------------------------------------------------
(***************************************************************************)
(* GlbObj.material_to_dic                                                  *)
(*                                                                         *)
(* A material carries its vrm_shader tag, its opacity mode, its alpha      *)
(* threshold, the sockets of its shader node, and the texture linked to    *)
(* the node's colour socket, if any.                                       *)
(***************************************************************************)
VARIABLES
    mt_materials,        \* used_materials
    glb_material_list,
    sampler_dic,         \* (wrap, filter) -> sampler index
    texture_dic,         \* (image id, sampler index) -> texture index
    sampler_count,
    texture_count,
    mt_samplers,         \* json_dic["samplers"]
    mt_textures,         \* json_dic["textures"]
    mt_exc,
    mt_pc

matVars ==
    <<mt_materials, glb_material_list, sampler_dic, texture_dic, sampler_count,
      texture_count, mt_samplers, mt_textures, mt_exc, mt_pc>>

MaxMaterials == 2

MToon == "MToon_unversioned"
Gltf == "GLTF"
TransparentZWrite == "TRANSPARENT_ZWRITE"
SupportedShaders == {MToon, Gltf, TransparentZWrite}
\* a value of the SHADER property that is none of the three
OtherShader == "OTHER"
\* a material with no vrm_shader property
NoTag == ""
\* the shader node has none of the sockets a kind reads
NoSockets == "none"
NoTexture == [image |-> Missing, wrap |-> "", filter |-> ""]
TexturePool == [image : {0, 1}, wrap : {"REPEAT", "CLAMP_TO_EDGE"}, filter : {"NEAREST", "LINEAR"}]
\* alpha thresholds: 0.5 and 0.25
HalfCutoff == One \div 2
QuarterCutoff == One \div 4

\* the exception a material's translation ends with, "" when it ends well
MaterialError(vrm_shader, sockets) ==
    CASE vrm_shader = NoTag -> "KeyError"
      [] vrm_shader = MToon -> IF sockets = MToon THEN "" ELSE "KeyError"
      [] vrm_shader = Gltf -> IF sockets = Gltf THEN "" ELSE "TypeError"
      [] vrm_shader = TransparentZWrite -> ""
      [] OTHER -> "Exception"

\* the add_texture calls of a material, in order: the toon kind asks for its
\* main texture twice, and so does the unlit kind
TextureRequests(b_mat) ==
    IF b_mat.texture = NoTexture THEN <<>>
    ELSE IF b_mat.vrm_shader = Gltf THEN <<b_mat.texture>>
    ELSE <<b_mat.texture, b_mat.texture>>

\* add_texture with the texture identified by the image alone.
AddTextureByImage(ts, tex) ==
    LET sampler == <<tex.wrap, tex.filter>>
        samplers == IF sampler \in DOMAIN ts.sampler_dic THEN ts.sampler_dic
                    ELSE (sampler :> ts.sampler_count) @@ ts.sampler_dic
        texture == <<tex.image, 0>>
        textures == IF texture \in DOMAIN ts.texture_dic THEN ts.texture_dic
                    ELSE (texture :> ts.texture_count) @@ ts.texture_dic
    IN  [ts |-> [sampler_dic |-> samplers,
                 texture_dic |-> textures,
                 sampler_count |-> IF sampler \in DOMAIN ts.sampler_dic
                                   THEN ts.sampler_count ELSE ts.sampler_count + 1,
                 texture_count |-> IF texture \in DOMAIN ts.texture_dic
                                   THEN ts.texture_count ELSE ts.texture_count + 1],
         index |-> textures[texture]]

\* add_texture(image_name, wrap_type, filter_type): the dictionaries and
\* counts after the call, and the index returned
add_texture(ts, tex) ==
    LET sampler == <<tex.wrap, tex.filter>>
        samplers == IF sampler \in DOMAIN ts.sampler_dic THEN ts.sampler_dic
                    ELSE (sampler :> ts.sampler_count) @@ ts.sampler_dic
        texture == <<tex.image, samplers[sampler]>>
        textures == IF texture \in DOMAIN ts.texture_dic THEN ts.texture_dic
                    ELSE (texture :> ts.texture_count) @@ ts.texture_dic
    IN  [ts |-> [sampler_dic |-> samplers,
                 texture_dic |-> textures,
                 sampler_count |-> IF sampler \in DOMAIN ts.sampler_dic
                                   THEN ts.sampler_count ELSE ts.sampler_count + 1,
                 texture_count |-> IF texture \in DOMAIN ts.texture_dic
                                   THEN ts.texture_count ELSE ts.texture_count + 1],
         index |-> textures[texture]]

\* the add_texture calls of one material: the dictionaries after them and the
\* indices they returned
RECURSIVE AddTextures(_, _, _)
AddTextures(ts, requests, indices) ==
    IF requests = <<>> THEN [ts |-> ts, indices |-> indices]
    ELSE AddTextures(add_texture(ts, Head(requests)).ts, Tail(requests),
                     Append(indices, add_texture(ts, Head(requests)).index))

\* pbr_fallback with a cutoff in every entry.
PbrFallbackAlwaysCutoff(name, transparent_method, transparency_cutoff, indices) ==
    [name |-> name, alphaMode |-> transparent_method, textures |-> indices,
     alphaCutoff |-> IF transparency_cutoff = Missing THEN HalfCutoff ELSE transparency_cutoff]

\* pbr_fallback: the name, the alpha mode, the cutoff of a MASK entry and the
\* texture indices of the core entry
pbr_fallback(name, transparent_method, transparency_cutoff, indices) ==
    IF transparent_method = "MASK"
    THEN [name |-> name, alphaMode |-> transparent_method, textures |-> indices,
          alphaCutoff |-> IF transparency_cutoff = Missing THEN HalfCutoff
                          ELSE transparency_cutoff]
    ELSE [name |-> name, alphaMode |-> transparent_method, textures |-> indices]

\* transparent_method of the toon and the PBR kind
TransparentMethod(blend_method) ==
    CASE blend_method = "OPAQUE" -> "OPAQUE"
      [] blend_method = "CLIP" -> "MASK"
      [] OTHER -> "BLEND"

\* transparency_cutoff of the toon and the PBR kind, Missing for None
TransparencyCutoff(b_mat) ==
    IF b_mat.blend_method = "CLIP" THEN b_mat.alpha_threshold ELSE Missing

\* pbr_dic of a material whose translation ends well
PbrDic(b_mat, name, indices) ==
    IF b_mat.vrm_shader = TransparentZWrite
    THEN pbr_fallback(name, "BLEND", HalfCutoff, indices)
    ELSE pbr_fallback(name, TransparentMethod(b_mat.blend_method),
                      TransparencyCutoff(b_mat), indices)

BlendMethods == {"OPAQUE", "CLIP", "BLEND", "HASHED"}

\* materials that differ in tag, sockets, opacity mode and threshold
AlphaMaterials ==
    {b \in [vrm_shader : SupportedShaders \cup {OtherShader},
            sockets : SupportedShaders \cup {NoSockets},
            blend_method : BlendMethods,
            alpha_threshold : {HalfCutoff, QuarterCutoff},
            texture : {NoTexture}] :
        /\ b.sockets = b.vrm_shader \/ (b.sockets = NoSockets /\ b.vrm_shader \in {Gltf, OtherShader})
        /\ b.alpha_threshold = QuarterCutoff => b.blend_method \in {"CLIP", "BLEND"}}

\* materials that differ in kind and texture
TextureMaterials ==
    {b \in [vrm_shader : SupportedShaders,
            sockets : SupportedShaders,
            blend_method : {"OPAQUE"},
            alpha_threshold : {HalfCutoff},
            texture : TexturePool] : b.sockets = b.vrm_shader}

SceneMaterials == AlphaMaterials \cup TextureMaterials

NoDic == [k \in {} |-> 0]

MatInit ==
    /\ mt_materials \in UNION {[1..n -> SceneMaterials] : n \in 1..MaxMaterials}
    /\ glb_material_list = <<>>
    /\ sampler_dic = NoDic
    /\ texture_dic = NoDic
    /\ sampler_count = 0
    /\ texture_count = 0
    /\ mt_samplers = <<>>
    /\ mt_textures = <<>>
    /\ mt_exc = ""
    /\ mt_pc = "materials"

MatIdle ==
    /\ mt_materials = <<>>
    /\ glb_material_list = <<>>
    /\ sampler_dic = NoDic
    /\ texture_dic = NoDic
    /\ sampler_count = 0
    /\ texture_count = 0
    /\ mt_samplers = <<>>
    /\ mt_textures = <<>>
    /\ mt_exc = ""
    /\ mt_pc = "idle"

\* The body of `for b_mat in used_materials` for the next material.
MaterialToDic ==
    /\ mt_pc = "materials"
    /\ Len(glb_material_list) < Len(mt_materials)
    /\ \E b_mat \in {mt_materials[Len(glb_material_list) + 1]} :
        IF MaterialError(b_mat.vrm_shader, b_mat.sockets) # ""
        THEN /\ mt_exc' = MaterialError(b_mat.vrm_shader, b_mat.sockets)
             /\ mt_pc' = "raise"
             /\ UNCHANGED <<glb_material_list, sampler_dic, texture_dic, sampler_count,
                            texture_count>>
        ELSE \E added \in {AddTextures([sampler_dic |-> sampler_dic,
                                        texture_dic |-> texture_dic,
                                        sampler_count |-> sampler_count,
                                        texture_count |-> texture_count],
                                       TextureRequests(b_mat), <<>>)} :
                /\ sampler_dic' = added.ts.sampler_dic
                /\ texture_dic' = added.ts.texture_dic
                /\ sampler_count' = added.ts.sampler_count
                /\ texture_count' = added.ts.texture_count
                /\ glb_material_list' =
                       Append(glb_material_list,
                              PbrDic(b_mat, Len(glb_material_list) + 1, added.indices))
                /\ UNCHANGED <<mt_exc, mt_pc>>
    /\ UNCHANGED <<mt_materials, mt_samplers, mt_textures>>

\* the key of a dictionary that holds the value
KeyOf(dic, value) == CHOOSE k \in DOMAIN dic : dic[k] = value

\* apply_texture_and_sampler_to_dic, after the last material
ApplyTextureAndSampler ==
    /\ mt_pc = "materials"
    /\ Len(glb_material_list) = Len(mt_materials)
    /\ mt_samplers' = [i \in 1..sampler_count |->
                           [wrapS |-> KeyOf(sampler_dic, i - 1)[1],
                            magFilter |-> KeyOf(sampler_dic, i - 1)[2]]]
    /\ mt_textures' = [i \in 1..texture_count |->
                           [sampler |-> KeyOf(texture_dic, i - 1)[2],
                            source |-> KeyOf(texture_dic, i - 1)[1]]]
    /\ mt_pc' = "done"
    /\ UNCHANGED <<mt_materials, glb_material_list, sampler_dic, texture_dic,
                   sampler_count, texture_count, mt_exc>>

-----------------------------------------------------------------------------
(***************************************************************************)
(* Claims about materials                                                  *)
(***************************************************************************)
\* C8: the core entry of a toon or PBR material has alphaMode OPAQUE, MASK or
\* BLEND as the opacity mode is OPAQUE, CLIP or another; it has an alphaCutoff
\* exactly when the mode is CLIP, and that is the material's alpha threshold.
C8_AlphaModeAndCutoff ==
    \A i \in 1..Len(glb_material_list) :
        mt_materials[i].vrm_shader \in {MToon, Gltf} =>
            /\ mt_materials[i].blend_method = "OPAQUE" =>
                   glb_material_list[i].alphaMode = "OPAQUE"
            /\ mt_materials[i].blend_method = "CLIP" =>
                   glb_material_list[i].alphaMode = "MASK"
            /\ mt_materials[i].blend_method \notin {"OPAQUE", "CLIP"} =>
                   glb_material_list[i].alphaMode = "BLEND"
            /\ "alphaCutoff" \in DOMAIN glb_material_list[i] <=>
                   mt_materials[i].blend_method = "CLIP"
            /\ mt_materials[i].blend_method = "CLIP" =>
                   glb_material_list[i].alphaCutoff = mt_materials[i].alpha_threshold

\* A toon material with opacity mode CLIP and threshold 0.25 and a PBR
\* material with a mode that is neither OPAQUE nor CLIP were translated.
C8_Witness ==
    /\ mt_pc = "done"
    /\ \E i, j \in 1..Len(glb_material_list) :
        /\ mt_materials[i].vrm_shader = MToon
        /\ mt_materials[i].blend_method = "CLIP"
        /\ glb_material_list[i].alphaCutoff = QuarterCutoff
        /\ mt_materials[j].vrm_shader = Gltf
        /\ mt_materials[j].blend_method = "HASHED"
        /\ glb_material_list[j].alphaMode = "BLEND"

\* the texture requests made so far, each with the index it returned
Requested ==
    UNION {{[tex |-> TextureRequests(mt_materials[i])[k],
             index |-> glb_material_list[i].textures[k],
             at |-> <<i, k>>] : k \in 1..Len(glb_material_list[i].textures)}
           : i \in 1..Len(glb_material_list)}

\* the sampler index of a texture index
SamplerOf(index) == KeyOf(texture_dic, index)[2]

\* C10: two texture requests of one export with the same image, wrap mode and
\* filter mode return the same texture index and two with different triples
\* return different indices; two requests have the same sampler index exactly
\* when they have the same wrap mode and filter mode, whatever their images.
C10_TextureAndSamplerDedup ==
    \A r1, r2 \in Requested :
        /\ (r1.tex = r2.tex) <=> (r1.index = r2.index)
        /\ (r1.tex.wrap = r2.tex.wrap /\ r1.tex.filter = r2.tex.filter) <=>
               (SamplerOf(r1.index) = SamplerOf(r2.index))

\* Two requests of different materials for one triple got one index, and two
\* requests that differ only in the image got two indices with one sampler.
C10_Witness ==
    /\ mt_pc = "done"
    /\ \E r1, r2 \in Requested :
        /\ r1.at # r2.at
        /\ r1.tex = r2.tex
        /\ r1.index = r2.index
    /\ \E r1, r2 \in Requested :
        /\ r1.tex.image # r2.tex.image
        /\ r1.tex.wrap = r2.tex.wrap
        /\ r1.tex.filter = r2.tex.filter
        /\ r1.index # r2.index
        /\ mt_textures[r1.index + 1].sampler = mt_textures[r2.index + 1].sampler

-----------------------------------------------------------------------------
(***************************************************************************)
(* ExportVRM.execute and the stages of GlbObj.convert_bpy2glb              *)
(*                                                                         *)
(* Between two exports the host edits the scene.  The vrm_shader property  *)
(* of a material is kept by the host from one export to the next.          *)
(***************************************************************************)
VARIABLES
    e_filepath,  \* self.filepath
    e_shader,    \* used material -> the SHADER property and the sockets of its shader node
    e_tag,       \* used material -> its vrm_shader property
    e_file,      \* the call at hand has written the file
    e_validated, \* the validation of the call at hand has finished
    e_stages,    \* the stages of the call at hand that have returned
    e_exc,
    e_pc

expVars == <<e_filepath, e_shader, e_tag, e_file, e_validated, e_stages, e_exc, e_pc>>

UsedMaterials == 1..MaxMaterials
\* the node group of a supported kind has the sockets of its kind
ShaderNodes ==
    {n \in [SHADER : SupportedShaders \cup {OtherShader},
            sockets : SupportedShaders \cup {NoSockets}] :
        n.SHADER \in SupportedShaders => n.sockets = n.SHADER}
Filepaths == {"", "avatar.vrm"}
StagesAfterWithoutFinalize ==
    [image_to_bin |-> "armature_to_node_and_scenes_dic",
     armature_to_node_and_scenes_dic |-> "material_to_dic",
     material_to_dic |-> "mesh_to_bin_and_dic",
     mesh_to_bin_and_dic |-> "gltf_meta_to_dic",
     gltf_meta_to_dic |-> "vrm_meta_to_dic",
     vrm_meta_to_dic |-> "write",
     finalize |-> "write"]

\* the stages after image_to_bin, in the order convert_bpy2glb calls them
StagesAfter ==
    [image_to_bin |-> "armature_to_node_and_scenes_dic",
     armature_to_node_and_scenes_dic |-> "material_to_dic",
     material_to_dic |-> "mesh_to_bin_and_dic",
     mesh_to_bin_and_dic |-> "gltf_meta_to_dic",
     gltf_meta_to_dic |-> "vrm_meta_to_dic",
     vrm_meta_to_dic |-> "finalize",
     finalize |-> "write"]

ExportInit ==
    /\ e_filepath \in Filepaths
    /\ e_shader \in [UsedMaterials -> ShaderNodes]
    /\ e_tag = [mat \in UsedMaterials |-> NoTag]
    /\ e_file = FALSE
    /\ e_validated = FALSE
    /\ e_stages = <<>>
    /\ e_exc = ""
    /\ e_pc = "idle"

ExportIdle ==
    /\ e_filepath = ""
    /\ e_shader = <<>>
    /\ e_tag = <<>>
    /\ e_file = FALSE
    /\ e_validated = FALSE
    /\ e_stages = <<>>
    /\ e_exc = ""
    /\ e_pc = "idle"

\* execute, up to the call of convert_bpy2glb: the file path, then the
\* validation GlbObj starts with, which finishes or does not
Execute ==
    /\ e_pc = "idle"
    /\ e_file' = FALSE
    /\ e_exc' = ""
    /\ e_stages' = <<>>
    /\ \E validated \in BOOLEAN :
        /\ e_validated' = (e_filepath # "" /\ validated)
        /\ e_pc' = IF e_filepath = "" \/ ~validated THEN "cancelled" ELSE "image_to_bin"
    /\ UNCHANGED <<e_filepath, e_shader, e_tag>>

\* the tag image_to_bin leaves on a material
TagAfterImageToBin(node, tag) == IF node.SHADER \in SupportedShaders THEN node.SHADER ELSE tag

\* image_to_bin: a material whose node is of a supported kind is tagged with it
ImageToBin ==
    /\ e_pc = "image_to_bin"
    /\ e_tag' = [mat \in UsedMaterials |-> TagAfterImageToBin(e_shader[mat], e_tag[mat])]
    /\ e_stages' = Append(e_stages, e_pc)
    /\ e_pc' = StagesAfter[e_pc]
    /\ UNCHANGED <<e_filepath, e_shader, e_file, e_validated, e_exc>>

\* the used materials whose translation raises
Raising == {mat \in UsedMaterials : MaterialError(e_tag[mat], e_shader[mat].sockets) # ""}

\* material_to_dic: the first material whose translation raises ends the export
ExportMaterials ==
    /\ e_pc = "material_to_dic"
    /\ IF Raising = {}
       THEN /\ e_stages' = Append(e_stages, e_pc)
            /\ e_pc' = StagesAfter[e_pc]
            /\ UNCHANGED e_exc
       ELSE /\ e_pc' = "raised"
            /\ e_exc' = LET first == CHOOSE mat \in Raising : \A other \in Raising : mat <= other
                        IN  MaterialError(e_tag[first], e_shader[first].sockets)
            /\ UNCHANGED e_stages
    /\ UNCHANGED <<e_filepath, e_shader, e_tag, e_file, e_validated>>

\* a stage that does not read the shader kind: it returns or it raises
OtherStage ==
    /\ e_pc \in {"armature_to_node_and_scenes_dic", "mesh_to_bin_and_dic",
                 "gltf_meta_to_dic", "vrm_meta_to_dic", "finalize"}
    /\ \E raises \in BOOLEAN :
        IF raises
        THEN /\ e_pc' = "raised"
             /\ e_exc' = "Exception"
             /\ UNCHANGED e_stages
        ELSE /\ e_stages' = Append(e_stages, e_pc)
             /\ e_pc' = StagesAfter[e_pc]
             /\ UNCHANGED e_exc
    /\ UNCHANGED <<e_filepath, e_shader, e_tag, e_file, e_validated>>

\* `with open(filepath, "wb") as f: f.write(vrm_bin)`
WriteFile ==
    /\ e_pc = "write"
    /\ e_file' = TRUE
    /\ e_pc' = "finished"
    /\ UNCHANGED <<e_filepath, e_shader, e_tag, e_validated, e_stages, e_exc>>

\* After a call the host changes the shader node of one material, or the file
\* path, or nothing.
HostEdit ==
    /\ e_pc \in {"cancelled", "raised", "finished"}
    /\ \/ \E mat \in UsedMaterials, node \in ShaderNodes :
            /\ e_shader' = [e_shader EXCEPT ![mat] = node]
            /\ UNCHANGED e_filepath
       \/ /\ e_filepath' \in Filepaths
          /\ UNCHANGED e_shader
    /\ e_pc' = "idle"
    /\ UNCHANGED <<e_tag, e_file, e_validated, e_stages, e_exc>>

-----------------------------------------------------------------------------
(***************************************************************************)
(* Claims about the export                                                 *)
(***************************************************************************)
\* C9: when a used material has a shader kind that is none of the three
\* supported ones, the conversion raises and the export stops before the file
\* is written: no export of such a scene finishes with a file.
C9_Original ==
    (\E mat \in UsedMaterials : e_shader[mat].SHADER \notin SupportedShaders) =>
        ~(e_pc = "finished" /\ e_file)

\* the stages of convert_bpy2glb: images, skeleton, materials, meshes, glTF
\* metadata, avatar metadata, finalize
ConversionStages ==
    <<"image_to_bin", "armature_to_node_and_scenes_dic", "material_to_dic",
      "mesh_to_bin_and_dic", "gltf_meta_to_dic", "vrm_meta_to_dic", "finalize">>

\* C19: the file is written only after the validation has succeeded and
\* every stage of the conversion has returned, in the order of
\* ConversionStages; when the file path is empty, the validation fails or a
\* stage raises, the call writes no file.
C19_FailFast ==
    e_pc # "idle" =>
        /\ e_stages = SubSeq(ConversionStages, 1, Len(e_stages))
        /\ e_file =>
               /\ e_pc = "finished"
               /\ e_filepath # ""
               /\ e_validated
               /\ e_stages = ConversionStages
        /\ (e_filepath = "" \/ ~e_validated) => e_pc = "cancelled" /\ ~e_file /\ e_stages = <<>>
        /\ e_pc \in {"cancelled", "raised"} => ~e_file

C19_Witness ==
    /\ e_pc = "finished"
    /\ e_file
    /\ e_stages = ConversionStages

-----------------------------------------------------------------------------
(***************************************************************************)
(* GlbObj.vrm_meta_to_dic: the avatar block of the document                *)
(*                                                                         *)
(* The scene has the bones of Bones and one mesh object.  A name is a      *)
(* bone's name, NoBone (a name no bone has), EmptyName (the empty string)  *)
(* or OtherName.  The steps before vrm_meta_to_dic are followed as far as  *)
(* it reads what they leave: the node names and json_dic["extensions"].    *)
(***************************************************************************)
VARIABLES
    v_version,       \* self.vrm_version, a string
    v_human,         \* armature.data: humanoid role -> the configured name
    v_mesh_name,     \* the name of the mesh object
    v_first_person,  \* firstPersonBone of the firstPerson_params text
    v_bind,          \* the weight of the bind of the blendshape_group text
    v_empty,         \* parent_bone of the EMPTY children of the armature
    v_spring,        \* the bone group of the spring_bone text
    v_nodes,         \* the names of json_dic["nodes"]
    v_human_bone_node_names,
    v_extensions,    \* json_dic["extensions"]
    v_humanBones,    \* humanBones of the block: role -> node
    v_weight,        \* the weight of the bind in the block
    v_colliderGroups,
    v_boneGroups,
    v_exc,
    v_pc

metaVars ==
    <<v_version, v_human, v_mesh_name, v_first_person, v_bind, v_empty, v_spring,
      v_nodes, v_human_bone_node_names, v_extensions, v_humanBones, v_weight,
      v_colliderGroups, v_boneGroups, v_exc, v_pc>>

\* str.startswith(prefix)
StartsWith(str, prefix) ==
    Len(str) >= Len(prefix) /\ SubSeq(str, 1, Len(prefix)) = prefix

LegacyPrefix == <<"0", ".">>
NewerPrefix == <<"1", ".">>
Versions == {<<"0", ".", "0">>, <<"1", ".", "0">>}

\* stand for vrm_types.HumanBones.requires + vrm_types.HumanBones.defines
Roles == {"hips", "head"}
EmptyName == MaxBones + 1
OtherName == MaxBones + 2
\* a key the armature data does not have
NoKey == 0 - 2
BoneNames == Bones
HumanSettings == [Roles -> BoneNames \cup {NoBone, EmptyName, NoKey}]
MeshNames == {0, NoBone, OtherName}
\* firstPersonBone is -1 when it is not set
FirstPersonBones == {Missing, 0, NoBone}
BindWeights == {0 - Quarter, 0, Quarter, One, One + Quarter}
\* no EMPTY child, one on a bone, one with no parent bone
EmptyParents == {<<>>, <<0>>, <<EmptyName>>}
SpringGroups == [bones : {<<0>>, <<NoBone>>}, colliderGroups : {<<>>, <<0>>, <<1>>, <<NoBone>>}]

\* the roles of `human_bone in data.keys() and data[human_bone] and
\* data[human_bone] in names`
RolesIn(human, names) ==
    {role \in Roles : human[role] # NoKey /\ human[role] # EmptyName /\ human[role] \in names}

\* human_bone_node_names, the names being those of the bones
human_bone_node_names(human) == {human[role] : role \in RolesIn(human, BoneNames)}

\* node_name_id_dic[name], or Missing where Python raises KeyError: a dict
\* built from a list keeps the last of the values of a key
LastIndexOf(seq, x) ==
    IF x \in Elements(seq)
    THEN (CHOOSE i \in 1..Len(seq) : seq[i] = x /\ \A j \in (i + 1)..Len(seq) : seq[j] # x) - 1
    ELSE Missing

node_name_id_dic(nodes, name) == LastIndexOf(nodes, name)

\* the humanBones of the block: the roles whose name is a key of node_name_id_dic
HumanBonesOf(human, nodes) ==
    [role \in RolesIn(human, Elements(nodes)) |-> node_name_id_dic(nodes, human[role])]

\* val * n for a float val and an int n
Times(val, n) ==
    IF val < 0 THEN 0 - RoundDouble((0 - val) * n) ELSE RoundDouble(val * n)

ClampUpperOnly(min_val, val, max_val) ==
    IF max_val >= val THEN val ELSE max_val

\* clamp(min_val, val, max_val)
clamp(min_val, val, max_val) ==
    IF max_val >= val
    THEN IF val >= min_val THEN val ELSE min_val
    ELSE max_val

\* the factor and the upper bound of a weight of the legacy schema
Hundred == 100

\* bind["weight"] of the block
BindWeight(version, weight) ==
    IF StartsWith(version, LegacyPrefix)
    THEN clamp(0, Times(weight, Hundred), Hundred * One)
    ELSE clamp(0, weight, One)

\* the keys vrm_meta_to_dic puts in the block
BlockKeys(version) ==
    IF StartsWith(version, LegacyPrefix)
    THEN {"exporterVersion", "specVersion", "meta", "humanoid", "firstPerson",
          "blendShapeMaster", "secondaryAnimation"}
    ELSE {"specVersion", "meta", "humanoid", "firstPerson", "blendShape"}
         \cup (IF StartsWith(version, NewerPrefix) THEN {"lookAt", "springBone"}
               ELSE {"secondaryAnimation"})

\* extension_name
ExtensionName(version) == IF StartsWith(version, LegacyPrefix) THEN "VRM" ELSE "VRMC_vrm"

\* json_dic has no key "extensions"
NoExtensions == [present |-> FALSE, blocks |-> <<>>]
\* the name of the node vrm_meta_to_dic adds
SecondaryName == MaxBones + 3

MetaInit ==
    /\ v_version \in Versions
    /\ v_human \in HumanSettings
    /\ v_mesh_name \in MeshNames
    /\ v_first_person = <<>>
    /\ v_bind = <<>>
    /\ v_empty = <<>>
    /\ v_spring = <<>>
    /\ v_nodes = <<>>
    /\ v_human_bone_node_names = {}
    /\ v_extensions = NoExtensions
    /\ v_humanBones = <<>>
    /\ v_weight = <<>>
    /\ v_colliderGroups = <<>>
    /\ v_boneGroups = <<>>
    /\ v_exc = ""
    /\ v_pc = "armature_to_node_and_scenes_dic"

MetaIdle ==
    /\ v_version = <<>>
    /\ v_human = <<>>
    /\ v_mesh_name = 0
    /\ v_first_person = <<>>
    /\ v_bind = <<>>
    /\ v_empty = <<>>
    /\ v_spring = <<>>
    /\ v_nodes = <<>>
    /\ v_human_bone_node_names = {}
    /\ v_extensions = NoExtensions
    /\ v_humanBones = <<>>
    /\ v_weight = <<>>
    /\ v_colliderGroups = <<>>
    /\ v_boneGroups = <<>>
    /\ v_exc = ""
    /\ v_pc = "idle"

\* armature_to_node_and_scenes_dic: the names of the nodes, one per bone in
\* the order of the bones, and human_bone_node_names
MetaArmature ==
    /\ v_pc = "armature_to_node_and_scenes_dic"
    /\ v_nodes' = [i \in 1..MaxBones |-> i - 1]
    /\ v_human_bone_node_names' = human_bone_node_names(v_human)
    /\ v_pc' = "material_to_dic"
    /\ UNCHANGED <<v_version, v_human, v_mesh_name, v_first_person, v_bind, v_empty,
                   v_spring, v_extensions, v_humanBones, v_weight, v_colliderGroups,
                   v_boneGroups, v_exc>>

\* the end of material_to_dic: json_dic["extensions"] of the legacy schema
MetaMaterials ==
    /\ v_pc = "material_to_dic"
    /\ v_extensions' =
           IF StartsWith(v_version, LegacyPrefix)
           THEN [present |-> TRUE, blocks |-> [name \in {"VRM"} |-> {"materialProperties"}]]
           ELSE v_extensions
    /\ v_pc' = "mesh_to_bin_and_dic"
    /\ UNCHANGED <<v_version, v_human, v_mesh_name, v_first_person, v_bind, v_empty,
                   v_spring, v_nodes, v_human_bone_node_names, v_humanBones, v_weight,
                   v_colliderGroups, v_boneGroups, v_exc>>

\* mesh_to_bin_and_dic: the node of the mesh object
MetaMesh ==
    /\ v_pc = "mesh_to_bin_and_dic"
    /\ v_nodes' = Append(v_nodes, v_mesh_name)
    /\ v_pc' = "humanoid"
    /\ UNCHANGED <<v_version, v_human, v_mesh_name, v_first_person, v_bind, v_empty,
                   v_spring, v_human_bone_node_names, v_extensions, v_humanBones,
                   v_weight, v_colliderGroups, v_boneGroups, v_exc>>

\* vrm_meta_to_dic, region humanoid
MetaHumanoid ==
    /\ v_pc = "humanoid"
    /\ v_humanBones' = HumanBonesOf(v_human, v_nodes)
    /\ v_pc' = "firstPerson"
    /\ UNCHANGED <<v_version, v_human, v_mesh_name, v_first_person, v_bind, v_empty,
                   v_spring, v_nodes, v_human_bone_node_names, v_extensions, v_weight,
                   v_colliderGroups, v_boneGroups, v_exc>>

\* vrm_meta_to_dic, region firstPerson
MetaFirstPerson ==
    /\ v_pc = "firstPerson"
    /\ \E bone \in FirstPersonBones :
        IF bone # Missing /\ node_name_id_dic(v_nodes, bone) = Missing
        THEN /\ v_first_person' = <<[firstPersonBone |-> bone]>>
             /\ v_exc' = "KeyError"
             /\ v_pc' = "raised"
        ELSE /\ v_first_person' =
                    <<[firstPersonBone |-> IF bone = Missing THEN bone
                                           ELSE node_name_id_dic(v_nodes, bone)]>>
             /\ v_pc' = "blendShape"
             /\ UNCHANGED v_exc
    /\ UNCHANGED <<v_version, v_human, v_mesh_name, v_bind, v_empty, v_spring, v_nodes,
                   v_human_bone_node_names, v_extensions, v_humanBones, v_weight,
                   v_colliderGroups, v_boneGroups>>

\* vrm_meta_to_dic, region blendShapeMaster: a bind of the mesh
MetaBlendShape ==
    /\ v_pc = "blendShape"
    /\ \E weight \in BindWeights :
        /\ v_bind' = <<weight>>
        /\ v_weight' = <<BindWeight(v_version, weight)>>
    /\ v_pc' = "colliderGroups"
    /\ UNCHANGED <<v_version, v_human, v_mesh_name, v_first_person, v_empty, v_spring,
                   v_nodes, v_human_bone_node_names, v_extensions, v_humanBones,
                   v_colliderGroups, v_boneGroups, v_exc>>

\* vrm_meta_to_dic, region colliderGroups: a group for the node of each parent bone
MetaColliders ==
    /\ v_pc = "colliderGroups"
    /\ \E parents \in EmptyParents :
        /\ v_empty' = parents
        /\ IF \E i \in 1..Len(parents) : node_name_id_dic(v_nodes, parents[i]) = Missing
           THEN /\ v_exc' = "KeyError"
                /\ v_pc' = "raised"
                /\ UNCHANGED v_colliderGroups
           ELSE /\ v_colliderGroups' =
                       [i \in 1..Len(parents) |->
                           [node |-> node_name_id_dic(v_nodes, parents[i])]]
                /\ v_pc' = "boneGroups"
                /\ UNCHANGED v_exc
    /\ UNCHANGED <<v_version, v_human, v_mesh_name, v_first_person, v_bind, v_spring,
                   v_nodes, v_human_bone_node_names, v_extensions, v_humanBones, v_weight,
                   v_boneGroups>>

\* collider_node_id_list.index(node), or Missing where Python raises ValueError
ColliderGroupIndex(groups, node) == IndexOf([i \in 1..Len(groups) |-> groups[i].node], node)

\* the exception of a bone group, "" when its names resolve
BoneGroupError(nodes, groups, group) ==
    IF \E i \in 1..Len(group.bones) : node_name_id_dic(nodes, group.bones[i]) = Missing
    THEN "KeyError"
    ELSE IF \E i \in 1..Len(group.colliderGroups) :
                node_name_id_dic(nodes, group.colliderGroups[i]) = Missing
    THEN "KeyError"
    ELSE IF \E i \in 1..Len(group.colliderGroups) :
                ColliderGroupIndex(groups, node_name_id_dic(nodes, group.colliderGroups[i]))
                    = Missing
    THEN "ValueError"
    ELSE ""

\* vrm_meta_to_dic, region boneGroup
MetaBoneGroups ==
    /\ v_pc = "boneGroups"
    /\ \E group \in SpringGroups :
        /\ v_spring' = <<group>>
        /\ v_exc' = BoneGroupError(v_nodes, v_colliderGroups, group)
        /\ IF BoneGroupError(v_nodes, v_colliderGroups, group) # ""
           THEN /\ v_pc' = "raised"
                /\ UNCHANGED v_boneGroups
           ELSE /\ v_boneGroups' =
                       <<[bones |-> [i \in 1..Len(group.bones) |->
                                        node_name_id_dic(v_nodes, group.bones[i])],
                          colliderGroups |->
                              [i \in 1..Len(group.colliderGroups) |->
                                  ColliderGroupIndex(v_colliderGroups,
                                      node_name_id_dic(v_nodes, group.colliderGroups[i]))]]>>
                /\ v_pc' = "extension"
    /\ UNCHANGED <<v_version, v_human, v_mesh_name, v_first_person, v_bind, v_empty,
                   v_nodes, v_human_bone_node_names, v_extensions, v_humanBones, v_weight,
                   v_colliderGroups>>

\* vrm_meta_to_dic, the end: the block is merged into
\* json_dic["extensions"][extension_name], and the node "secondary" added
MetaExtension ==
    /\ v_pc = "extension"
    /\ IF v_extensions.present /\ ExtensionName(v_version) \in DOMAIN v_extensions.blocks
       THEN /\ v_extensions' =
                   [v_extensions EXCEPT !.blocks[ExtensionName(v_version)] =
                       @ \cup BlockKeys(v_version)]
            /\ v_nodes' = Append(v_nodes, SecondaryName)
            /\ v_pc' = "done"
            /\ UNCHANGED v_exc
       ELSE /\ v_exc' = "KeyError"
            /\ v_pc' = "raised"
            /\ UNCHANGED <<v_extensions, v_nodes>>
    /\ UNCHANGED <<v_version, v_human, v_mesh_name, v_first_person, v_bind, v_empty,
                   v_spring, v_human_bone_node_names, v_humanBones, v_weight,
                   v_colliderGroups, v_boneGroups>>

-----------------------------------------------------------------------------
(***************************************************************************)
(* Claims about the avatar block                                           *)
(***************************************************************************)
MetaEnded == v_pc \in {"done", "raised"}
\* every name of the spring bone and collider data is the name of a node
MetaNamesResolve == v_boneGroups # <<>>

\* C11: the export completes for both schema versions, the avatar block in
\* the document's extensions under "VRM" for a legacy version (0.x) and under
\* "VRMC_vrm" for a newer one (1.x).
C11_Original ==
    (MetaEnded /\ MetaNamesResolve) =>
        /\ v_pc = "done"
        /\ v_extensions.present
        /\ StartsWith(v_version, LegacyPrefix) =>
               /\ "VRM" \in DOMAIN v_extensions.blocks
               /\ "humanoid" \in v_extensions.blocks["VRM"]
        /\ StartsWith(v_version, NewerPrefix) =>
               /\ "VRMC_vrm" \in DOMAIN v_extensions.blocks
               /\ "humanoid" \in v_extensions.blocks["VRMC_vrm"]

\* the weight of the bind before it is clamped
ScaledBind ==
    IF StartsWith(v_version, LegacyPrefix) THEN Times(v_bind[1], Hundred) ELSE v_bind[1]
\* the upper bound of the schema
UpperBound == IF StartsWith(v_version, LegacyPrefix) THEN Hundred * One ELSE One

\* C16: the bind weight of the block lies in [0,100] for the legacy schema
\* (the weight times 100, clamped) and in [0,1] for the newer one: a value in
\* the range is kept, one below it becomes the lower bound, one above it the
\* upper bound, and the region goes on to the next without an exception.
C16_WeightClamped ==
    v_bind # <<>> =>
        /\ v_weight # <<>>
        /\ v_weight[1] >= 0 /\ v_weight[1] <= UpperBound
        /\ (ScaledBind >= 0 /\ ScaledBind <= UpperBound) => v_weight[1] = ScaledBind
        /\ ScaledBind < 0 => v_weight[1] = 0
        /\ ScaledBind > UpperBound => v_weight[1] = UpperBound
        /\ v_pc = "raised" => v_empty # <<>> \/ v_spring # <<>>

C16_Witness ==
    /\ v_pc = "done"
    /\ v_bind = <<0 - Quarter>>
    /\ v_weight = <<0>>

\* a name of the collider or spring bone data is the name of no node
UnresolvedReference ==
    \/ \E i \in 1..Len(v_empty) : node_name_id_dic(v_nodes, v_empty[i]) = Missing
    \/ /\ v_spring # <<>>
       /\ \E name \in Elements(v_spring[1].bones) \cup Elements(v_spring[1].colliderGroups) :
               node_name_id_dic(v_nodes, name) = Missing

\* C17: a spring bone group or a collider that names a bone that is not in the
\* node list is skipped, and the export still completes: such a name is never
\* fatal.
C17_Original ==
    (MetaEnded /\ StartsWith(v_version, LegacyPrefix) /\ UnresolvedReference) =>
        v_pc = "done"

\* the humanoid region has run
HumanoidDone ==
    v_pc \in {"firstPerson", "blendShape", "colliderGroups", "boneGroups", "extension",
              "done", "raised"}

\* C18: a humanoid role whose configured name is empty or the name of no bone
\* is left out of the humanoid bone mapping and of the humanoid bones that
\* decide the skins, without an exception; a role whose configured name is a
\* bone's is in the mapping with the node index of that bone.
C18_Original ==
    HumanoidDone =>
        \A role \in Roles :
            IF v_human[role] \in BoneNames
            THEN /\ role \in DOMAIN v_humanBones
                 /\ v_humanBones[role] = v_human[role]
                 /\ v_human[role] \in v_human_bone_node_names
            ELSE /\ role \notin DOMAIN v_humanBones
                 /\ v_human[role] \notin v_human_bone_node_names
-----------------------------------------------------------------------------
(***************************************************************************)
(* The nodes of the bones and of a mesh object                             *)
(*                                                                         *)
(* armature_to_node_and_scenes_dic makes a node of every bone, a scene     *)
(* root of every root bone and a skin of the trees with a humanoid bone;   *)
(* mesh_to_bin_and_dic then adds the node of a mesh object, skinned or a   *)
(* child of its parent bone.  A position is a vector of three integers.    *)
(***************************************************************************)
VARIABLES
    b_parent,      \* bone -> its parent, NoParent for a root
    b_head,        \* bone -> head_local
    b_human,       \* human_bone_node_names
    b_mesh,        \* the mesh object: modifiers, parent, parent_bone, location
    b_nodes,       \* json_dic["nodes"]
    b_scene,       \* json_dic["scenes"][0]["nodes"]
    b_skins,       \* json_dic["skins"]
    b_matrices,    \* skin by skin, what GlbBin is given for inverseBindMatrices
    b_attributes,  \* the attributes of the primitives of the mesh
    b_pc

nodeVars ==
    <<b_parent, b_head, b_human, b_mesh, b_nodes, b_scene, b_skins, b_matrices,
      b_attributes, b_pc>>

Origin == <<0, 0, 0>>
Positions == {Origin, <<1, 2, 3>>}

VecSub(a, b) == [i \in 1..3 |-> a[i] - b[i]]

AxisNegatingY(vec3) == <<vec3[1], vec3[3], 0 - vec3[2]>>

\* axis_blender_to_glb(vec3): [vec3[i] * t for i, t in zip([0, 2, 1], [-1, 1, 1])]
axis_blender_to_glb(vec3) ==
    LET index == <<1, 3, 2>>
        sign == <<0 - 1, 1, 1>>
    IN  [k \in 1..3 |-> vec3[index[k]] * sign[k]]

\* The orders the host may give the children of a bone in: the children of
\* every bone are in the order of one ranking of all the bones.
Rankings == {r \in [1..MaxBones -> Bones] : Elements(r) = Bones}

\* list(bone.children) under a ranking
ChildrenIn(p, rank, b) == SelectSeq(rank, LAMBDA c : p[c] = b)

\* bone_to_node(b_bone), with the keys a mesh node has
bone_to_node(p, head, rank, b) ==
    [name |-> b,
     translation |->
         axis_blender_to_glb(VecSub(head[b], IF p[b] # NoParent THEN head[p[b]] ELSE Origin)),
     children |-> ChildrenIn(p, rank, b),
     skin |-> Missing,
     mesh |-> Missing]

\* the root bones, in the order of armature.data.bones
RootBones(p) == Ascending({b \in Bones : p[b] = NoParent})

\* `while bone_children:`, each pass popping the last of bone_children; the
\* bones in the order they are made nodes and joints
RECURSIVE WalkIn(_, _, _, _)
WalkIn(p, rank, bone_children, visited) ==
    Value({ IF stack = <<>> THEN done
            ELSE WalkIn(p, rank,
                        SubSeq(stack, 1, Len(stack) - 1) \o ChildrenIn(p, rank, stack[Len(stack)]),
                        Append(done, stack[Len(stack)]))
          : stack \in {bone_children}, done \in {visited} })

\* the bones of the tree of a root as the loop of lines 177-185 visits them
Visited(p, rank, root) == WalkIn(p, rank, ChildrenIn(p, rank, root), <<root>>)

\* the nodes left in the order they were appended in
Unsorted(nodes) == nodes

\* sorted(nodes, key=lambda node: bone_id_dic[node["name"]]); a bone is
\* named by its place in armature.data.bones
RECURSIVE SortedByBoneId(_)
SortedByBoneId(nodes) ==
    IF nodes = <<>> THEN <<>>
    ELSE LET first == CHOOSE i \in 1..Len(nodes) :
                          \A j \in 1..Len(nodes) :
                              nodes[i].name < nodes[j].name \/ (nodes[i].name = nodes[j].name /\ i <= j)
         IN  <<nodes[first]>>
                 \o SortedByBoneId(SubSeq(nodes, 1, first - 1) \o SubSeq(nodes, first + 1, Len(nodes)))

\* nodes after the loop over the root bones: the bones of a tree are
\* appended as they are visited and the list is sorted after every tree
RECURSIVE NodesIn(_, _, _, _, _)
NodesIn(p, head, rank, roots, nodes) ==
    IF roots = <<>> THEN nodes
    ELSE LET visited == Visited(p, rank, Head(roots))
         IN  NodesIn(p, head, rank, Tail(roots),
                     SortedByBoneId(nodes \o [i \in 1..Len(visited) |->
                                                 bone_to_node(p, head, rank, visited[i])]))

\* the skins of the trees whose root is a human bone
RECURSIVE SkinsOfHumanRootsIn(_, _, _, _)
SkinsOfHumanRootsIn(p, human, rank, roots) ==
    IF roots = <<>> THEN <<>>
    ELSE LET skin == [joints |-> Visited(p, rank, Head(roots)), skeleton |-> Head(roots)]
         IN  (IF Head(roots) \in human THEN <<skin>> ELSE <<>>)
             \o SkinsOfHumanRootsIn(p, human, rank, Tail(roots))

\* skins after the loop over the root bones: a skin of every tree that has
\* a human bone, its joints in the order of the visit
RECURSIVE SkinsIn(_, _, _, _)
SkinsIn(p, human, rank, roots) ==
    IF roots = <<>> THEN <<>>
    ELSE LET skin == [joints |-> Visited(p, rank, Head(roots)), skeleton |-> Head(roots)]
         IN  (IF Elements(skin.joints) \cap human # {} THEN <<skin>> ELSE <<>>)
             \o SkinsIn(p, human, rank, Tail(roots))

\* a matrix whose translation is not negated
InvMatrixOfPosition(pos) ==
    <<1, 0, 0, 0, 0, 1, 0, 0, 0, 0, 1, 0, pos[1], pos[2], pos[3], 1>>

\* inv_matrix of a joint
inv_matrix(bone_glb_world_pos) ==
    <<1, 0, 0, 0, 0, 1, 0, 0, 0, 0, 1, 0,
      0 - bone_glb_world_pos[1], 0 - bone_glb_world_pos[2], 0 - bone_glb_world_pos[3], 1>>

\* what GlbBin is given for a skin: the matrices of its joints, one after
\* another, the type and the count
InverseBindMatrices(head, nodes, skin) ==
    [bin |-> [i \in 1..Len(skin.joints) |->
                 inv_matrix(axis_blender_to_glb(head[nodes[skin.joints[i] + 1].name]))],
     type |-> "MAT4",
     count |-> Len(skin.joints)]

\* a value parent_bone never has: Python's None
NoneValue == 0 - 3
ParentTypes == {"NONE", "ARMATURE", "MESH"}
\* the mesh objects: one with no parent has no parent bone
MeshObjects ==
    {o \in [armature_modifier : BOOLEAN, parent : ParentTypes,
            parent_bone : Bones \cup {NoBone, EmptyName}, location : Positions] :
        o.parent = "NONE" => o.parent_bone = EmptyName}

\* is_skin_mesh
is_skin_mesh(mesh) ==
    ~(/\ ~mesh.armature_modifier
      /\ mesh.parent # "NONE"
      /\ mesh.parent = "ARMATURE"
      /\ mesh.parent_bone # NoneValue)

\* the place in nodes of the first node of that name, 0 for none:
\* ([node for node in nodes if node["name"] == parent_bone] + [None])[0]
ParentNode(nodes, parent_bone) ==
    IF \E i \in 1..Len(nodes) : nodes[i].name = parent_bone
    THEN CHOOSE i \in 1..Len(nodes) :
             nodes[i].name = parent_bone /\ \A j \in 1..(i - 1) : nodes[j].name # parent_bone
    ELSE 0

\* the bone reached from a bone by n steps to the parent, NoParent past a root
RECURSIVE Up(_, _, _)
Up(p, b, n) == IF n = 0 \/ b = NoParent THEN b ELSE Up(p, p[b], n - 1)

\* the parent maps of armature.data.bones: every forest, the place of a bone
\* in armature.data.bones being any with respect to its parent and siblings
BoneForests ==
    {p \in [Bones -> {NoParent} \cup Bones] : \A b \in Bones : Up(p, b, MaxBones) = NoParent}

\* head_local of the bones: one position for the bones of an even place and
\* one for those of an odd place
HeadMaps == {[b \in Bones |-> IF b % 2 = 0 THEN even ELSE odd] : even, odd \in Positions}

NodesInit ==
    /\ b_parent \in BoneForests
    /\ b_head \in HeadMaps
    /\ b_human \in SUBSET Bones
    /\ b_mesh = <<>>
    /\ b_nodes = <<>>
    /\ b_scene = <<>>
    /\ b_skins = <<>>
    /\ b_matrices = <<>>
    /\ b_attributes = {}
    /\ b_pc = "armature"

NodesIdle ==
    /\ b_parent = <<>>
    /\ b_head = <<>>
    /\ b_human = {}
    /\ b_mesh = <<>>
    /\ b_nodes = <<>>
    /\ b_scene = <<>>
    /\ b_skins = <<>>
    /\ b_matrices = <<>>
    /\ b_attributes = {}
    /\ b_pc = "idle"

\* armature_to_node_and_scenes_dic
NodesArmature ==
    /\ b_pc = "armature"
    /\ \E rank \in Rankings :
        \E nodes \in {NodesIn(b_parent, b_head, rank, RootBones(b_parent), <<>>)},
           skins \in {SkinsIn(b_parent, b_human, rank, RootBones(b_parent))} :
            /\ b_nodes' = nodes
            /\ b_scene' = RootBones(b_parent)
            /\ b_skins' = skins
            /\ b_matrices' = [k \in 1..Len(skins) |-> InverseBindMatrices(b_head, nodes, skins[k])]
    /\ b_pc' = "mesh"
    /\ UNCHANGED <<b_parent, b_head, b_human, b_mesh, b_attributes>>

\* mesh_to_bin_and_dic: the node of a mesh object and the attributes of its
\* primitives
NodesMesh ==
    /\ b_pc = "mesh"
    /\ \E mesh \in MeshObjects :
        LET mesh_node_id == Len(b_nodes)
            parent_node == ParentNode(b_nodes, mesh.parent_bone)
            base_pos == IF parent_node # 0 THEN b_head[mesh.parent_bone] ELSE Origin
            node_dic ==
                [name |-> OtherName,
                 translation |->
                     IF is_skin_mesh(mesh) THEN Origin
                     ELSE axis_blender_to_glb(VecSub(mesh.location, base_pos)),
                 children |-> <<>>,
                 skin |-> IF is_skin_mesh(mesh) THEN 0 ELSE Missing,
                 mesh |-> 0]
        IN  /\ b_mesh' = mesh
            /\ b_nodes' =
                   IF ~is_skin_mesh(mesh) /\ parent_node # 0
                   THEN Append([b_nodes EXCEPT ![parent_node].children =
                                    Append(@, mesh_node_id)],
                               node_dic)
                   ELSE Append(b_nodes, node_dic)
            /\ b_scene' =
                   IF is_skin_mesh(mesh) \/ parent_node = 0
                   THEN Append(b_scene, mesh_node_id)
                   ELSE b_scene
            /\ b_attributes' =
                   {"POSITION", "NORMAL"}
                       \cup (IF is_skin_mesh(mesh) THEN {"JOINTS_0", "WEIGHTS_0"} ELSE {})
    /\ b_pc' = "done"
    /\ UNCHANGED <<b_parent, b_head, b_human, b_skins, b_matrices>>

-----------------------------------------------------------------------------
(***************************************************************************)
(* Claims about the nodes                                                  *)
(***************************************************************************)
\* the head of a bone from the head of its parent
RelativeHead(b) ==
    VecSub(b_head[b], IF b_parent[b] # NoParent THEN b_head[b_parent[b]] ELSE Origin)

\* C12 as stated: the translation of a bone node is the bone's head minus
\* its parent's head (the head itself for a root), reordered to [X, Z, Y] with
\* the Y component negated, X and Z keeping their sign.
C12_Original ==
    b_pc \in {"mesh", "done"} =>
        \A b \in Bones :
            b_nodes[b + 1].translation =
                <<RelativeHead(b)[1], RelativeHead(b)[3], 0 - RelativeHead(b)[2]>>

\* C12, amended: the translation of a bone node is the bone's head minus its
\* parent's head (the head itself for a root), reordered to [X, Z, Y] with the
\* X component negated, Y and Z keeping their sign.
C12_XNegated ==
    b_pc \in {"mesh", "done"} =>
        \A b \in Bones :
            b_nodes[b + 1].translation =
                <<0 - RelativeHead(b)[1], RelativeHead(b)[3], RelativeHead(b)[2]>>

C12_Witness ==
    /\ b_pc = "mesh"
    /\ \E b \in Bones :
        /\ b_parent[b] # NoParent
        /\ b_head[b_parent[b]] = <<1, 2, 3>>
        /\ b_head[b] = Origin
        /\ b_nodes[b + 1].translation = <<1, 0 - 3, 0 - 2>>

\* the bones of the tree of a root
TreeOf(root) == {b \in Bones : IsAncestorOrSelf(b_parent, root, b)}

\* C13: a skin is emitted for the tree of a root bone exactly when the tree,
\* the root included, has a bone that a humanoid role names; the bones of a
\* tree without one are nodes and its root is a scene root, with no skin.
C13_SkinIffHumanBone ==
    b_pc \in {"mesh", "done"} =>
        \A root \in {b \in Bones : b_parent[b] = NoParent} :
            /\ (\E i \in 1..Len(b_skins) : b_skins[i].skeleton = root)
                   <=> TreeOf(root) \cap b_human # {}
            /\ \A i \in 1..Len(b_skins) :
                   b_skins[i].skeleton = root => Elements(b_skins[i].joints) = TreeOf(root)
            /\ \A i, j \in 1..Len(b_skins) : b_skins[i].skeleton = b_skins[j].skeleton => i = j
            /\ root \in Elements(b_scene)
            /\ \A b \in TreeOf(root) : b_nodes[b + 1].name = b

C13_Witness ==
    /\ b_pc = "mesh"
    /\ Len(b_skins) = 1
    /\ \E root, other \in Bones :
        /\ b_parent[root] = NoParent /\ b_parent[other] = NoParent
        /\ TreeOf(root) \cap b_human = {}
        /\ b_human \subseteq TreeOf(other) \ {other}
        /\ b_human # {}
        /\ {root, other} \subseteq Elements(b_scene)

\* the mesh has no armature modifier and is the child of a named bone
BoneParented ==
    /\ ~b_mesh.armature_modifier
    /\ b_mesh.parent = "ARMATURE"
    /\ b_mesh.parent_bone \in Bones

\* C14: a mesh is exported as a static child of its parent bone (no skin, no
\* joints or weights, its node among the children of the node of the bone)
\* exactly when it has no armature modifier and is parented to a named bone;
\* every other mesh is skinned: a skin, a zero translation, a scene root.
C14_Original ==
    b_pc = "done" =>
        LET mesh_node_id == Len(b_nodes) - 1
            node == b_nodes[Len(b_nodes)]
        IN  IF BoneParented
            THEN /\ node.skin = Missing
                 /\ b_attributes \cap {"JOINTS_0", "WEIGHTS_0"} = {}
                 /\ mesh_node_id \in Elements(b_nodes[b_mesh.parent_bone + 1].children)
            ELSE /\ node.skin = 0
                 /\ node.translation = Origin
                 /\ mesh_node_id \in Elements(b_scene)
                 /\ {"JOINTS_0", "WEIGHTS_0"} \subseteq b_attributes

\* the places in nodes of the nodes that carry the name of a bone
PlacesOf(b) == {i \in 1..Len(b_nodes) : b_nodes[i].name = b}

\* the bone whose name the node at an index carries
BoneAt(index) == b_nodes[index + 1].name

\* the bones the indices of a list stand for
BonesAt(indices) == [i \in 1..Len(indices) |-> BoneAt(indices[i])]

\* a list names every member of a set once and nothing else
ListsOnce(list, S) == Elements(list) = S /\ Len(list) = Cardinality(S)

\* C24: after the translation of the skeleton every bone is the name of
\* exactly one node, and every index of a children list, of the joints and
\* the skeleton of a skin and of the scene roots is the place in the node
\* list of the node that carries the name of the bone meant: the children
\* of a node are the child bones of its bone, the joints of a skin the
\* bones of the tree of its skeleton, the scene roots the root bones, each
\* once; this for every tree, any number of roots and any order in which
\* the host gives the children of a bone.
C24_IndicesArePlacesOfNames ==
    b_pc = "mesh" =>
        /\ Len(b_nodes) = MaxBones
        /\ \A b \in Bones : Cardinality(PlacesOf(b)) = 1
        /\ \A i \in 1..Len(b_nodes) :
               ListsOnce(BonesAt(b_nodes[i].children),
                         {c \in Bones : b_parent[c] = b_nodes[i].name})
        /\ \A k \in 1..Len(b_skins) :
               /\ b_parent[BoneAt(b_skins[k].skeleton)] = NoParent
               /\ ListsOnce(BonesAt(b_skins[k].joints), TreeOf(BoneAt(b_skins[k].skeleton)))
        /\ ListsOnce(BonesAt(b_scene), {b \in Bones : b_parent[b] = NoParent})

\* C24 witness: a skin whose joints are not in the order of the nodes, a
\* child having been visited before a sibling of a lower place, and a node
\* with two children.
C24_Witness ==
    /\ b_pc = "mesh"
    /\ \E k \in 1..Len(b_skins) :
        \E i, j \in 1..Len(b_skins[k].joints) :
            i < j /\ b_skins[k].joints[i] > b_skins[k].joints[j]
    /\ \E i \in 1..Len(b_nodes) : Len(b_nodes[i].children) = 2

\* C25: for every skin GlbBin is given one 4x4 matrix per joint, in the
\* order of the joints; the i-th matrix is the identity but for its
\* translation, which is the negated axis-converted head_local of the bone
\* the i-th joint stands for; the count of the accessor is the number of
\* joints.
C25_InverseBindMatrices ==
    b_pc \in {"mesh", "done"} =>
        /\ Len(b_matrices) = Len(b_skins)
        /\ \A k \in 1..Len(b_skins) :
               /\ b_matrices[k].type = "MAT4"
               /\ b_matrices[k].count = Len(b_skins[k].joints)
               /\ Len(b_matrices[k].bin) = Len(b_skins[k].joints)
               /\ \A i \in 1..Len(b_skins[k].joints) :
                      LET joint == b_skins[k].joints[i]
                          pos == b_head[BoneAt(joint)]
                      IN  b_matrices[k].bin[i] =
                              <<1, 0, 0, 0,
                                0, 1, 0, 0,
                                0, 0, 1, 0,
                                pos[1], 0 - pos[3], 0 - pos[2], 1>>

\* C25 witness: a skin of two joints or more, one of them a bone whose head
\* is not at the origin.
C25_Witness ==
    /\ b_pc = "mesh"
    /\ \E k \in 1..Len(b_skins) :
        /\ Len(b_skins[k].joints) >= 2
        /\ \E i \in 1..Len(b_skins[k].joints) :
               /\ b_head[b_skins[k].joints[i]] = <<1, 2, 3>>
               /\ b_matrices[k].bin[i][13] = 1
               /\ b_matrices[k].bin[i][14] = 0 - 3
               /\ b_matrices[k].bin[i][15] = 0 - 2
-----------------------------------------------------------------------------
(***************************************************************************)
(* The four joints and weights of a vertex with many vertex groups         *)
(*                                                                         *)
(* The armature is one tree of JointCount bones, a chain or a root with    *)
(* every other bone as its child, so that a vertex can have more than four *)
(* groups that are named after a joint.                                    *)
(***************************************************************************)
VARIABLES
    w_parent,   \* bone -> its parent, NoParent for the root
    w_hips,     \* armature.data["hips"]
    w_nodes,    \* json_dic["nodes"]
    w_skins,    \* json_dic["skins"]
    w_vgroups,  \* of the vertex at hand: vertex group -> weight
    w_joints,   \* the joints packed for the vertex
    w_weights,  \* the weights packed for the vertex
    w_exc,
    w_pc

weightVars ==
    <<w_parent, w_hips, w_nodes, w_skins, w_vgroups, w_joints, w_weights, w_exc, w_pc>>

JointCount == MaxBones + 2
Joints == 0..(JointCount - 1)
\* the vertex groups: one per bone, and one that is named after no bone
VertexGroups == Joints \cup {JointCount}
VertexWeights == GroupWeights \cup {One}
ChainOfBones == [b \in Joints |-> b - 1]
StarOfBones == [b \in Joints |-> IF b = 0 THEN NoParent ELSE 0]

\* the joints and weights of a vertex of a skinned mesh: the four pairs, the
\* hips bone for a vertex without weight, and the normalized weights
PackVertex(nodes, skins, hips, vgroups) ==
    Value({ Value({ [exc |-> normalized.exc,
                     joints |-> IF Sum([i \in 1..4 |-> pairs[i][1]]) < Epsilon
                                THEN <<hips_bone_index(nodes, hips), 0, 0, 0>>
                                ELSE [i \in 1..4 |-> pairs[i][2]],
                     weights |-> normalized.weights]
                  : normalized \in
                        {normalize_weights_compatible_with_gl_float(
                             IF Sum([i \in 1..4 |-> pairs[i][1]]) < Epsilon
                             THEN <<One, 0, 0, 0>>
                             ELSE [i \in 1..4 |-> pairs[i][1]])} })
          : pairs \in {FourPairs(nodes, skins, vgroups)} })

WeightsInit ==
    /\ w_parent \in {ChainOfBones, StarOfBones}
    /\ w_hips \in {0, JointCount - 1}
    /\ w_nodes = <<>>
    /\ w_skins = <<>>
    /\ w_vgroups = <<>>
    /\ w_joints = <<>>
    /\ w_weights = <<>>
    /\ w_exc = ""
    /\ w_pc = "armature"

WeightsIdle ==
    /\ w_parent = <<>>
    /\ w_hips = 0
    /\ w_nodes = <<>>
    /\ w_skins = <<>>
    /\ w_vgroups = <<>>
    /\ w_joints = <<>>
    /\ w_weights = <<>>
    /\ w_exc = ""
    /\ w_pc = "idle"

\* armature_to_node_and_scenes_dic: the nodes and the skin of the tree
WeightsArmature ==
    /\ w_pc = "armature"
    /\ w_nodes' = NodesOf(w_parent)
    /\ w_skins' = SkinsOf(w_parent, {w_hips}, <<0>>)
    /\ w_pc' = "mesh"
    /\ UNCHANGED <<w_parent, w_hips, w_vgroups, w_joints, w_weights, w_exc>>

\* `if is_skin_mesh:` for one new vertex of a skinned mesh
WeightsVertex ==
    /\ w_pc = "mesh"
    /\ \E vgroups \in [VertexGroups -> VertexWeights] :
        \E packed \in {PackVertex(w_nodes, w_skins, w_hips, vgroups)} :
            /\ w_vgroups' = vgroups
            /\ w_exc' = packed.exc
            /\ IF packed.exc = ""
               THEN /\ w_joints' = packed.joints
                    /\ w_weights' = packed.weights
                    /\ w_pc' = "vertex"
               ELSE /\ UNCHANGED <<w_joints, w_weights>>
                    /\ w_pc' = "raise"
    /\ UNCHANGED <<w_parent, w_hips, w_nodes, w_skins>>

-----------------------------------------------------------------------------
(***************************************************************************)
(* Claims about the four pairs                                             *)
(***************************************************************************)
\* vertex group -> its place in the joints of the skin, Missing for none
JointOfGroup ==
    [g \in VertexGroups |-> joint_id_from_node_name_solver(w_nodes, w_skins, g)]

\* the groups of the vertex with a joint and a weight of epsilon or more
ResolvedOf(joint) == {g \in VertexGroups : joint[g] # Missing /\ w_vgroups[g] >= Epsilon}
Resolved == ResolvedOf(JointOfGroup)

\* how many of the four pairs come from a group
KeptCountOf(resolved) == IF Cardinality(resolved) > 4 THEN 4 ELSE Cardinality(resolved)

\* the groups of the pairs that are kept
KeptOf(joint, resolved) ==
    {g \in resolved : \E i \in 1..KeptCountOf(resolved) : joint[g] = w_joints[i]}
KeptGroups == KeptOf(JointOfGroup, Resolved)

\* C15: a vertex of a skinned mesh is exported with exactly 4 (weight, joint)
\* pairs in non-increasing order of weight; of more than 4 groups with a
\* joint and a nonzero weight the 4 of the highest weights are kept, the pairs
\* after those of fewer groups are (0, 0), and dropping pairs is not fatal.
C15_FourHighestPairs ==
    w_pc \in {"vertex", "raise"} =>
    \A joint \in {JointOfGroup} : \A resolved \in {ResolvedOf(joint)} :
        /\ w_pc = "vertex" =>
            \A kept \in {KeptOf(joint, resolved)} :
                /\ Len(w_joints) = 4 /\ Len(w_weights) = 4
                /\ \A i \in 1..3 : w_weights[i] >= w_weights[i + 1]
                /\ Cardinality(kept) = KeptCountOf(resolved)
                /\ \A g, h \in kept :
                       (\E i, j \in 1..KeptCountOf(resolved) :
                            i < j /\ joint[g] = w_joints[i] /\ joint[h] = w_joints[j])
                           => w_vgroups[g] >= w_vgroups[h]
                /\ \A g \in kept : \A h \in resolved \ kept : w_vgroups[g] >= w_vgroups[h]
                /\ \A i \in 1..4 :
                       i > KeptCountOf(resolved) /\ i > 1 => w_weights[i] = 0 /\ w_joints[i] = 0
        /\ (w_pc \in {"vertex", "raise"} /\ Cardinality(resolved) > 4) => w_pc = "vertex"

C15_Witness ==
    /\ w_pc = "vertex"
    /\ Cardinality(Resolved) > 4
    /\ \E g \in KeptGroups, h \in Resolved \ KeptGroups : w_vgroups[g] > w_vgroups[h]
    /\ w_weights[1] > w_weights[4]
-----------------------------------------------------------------------------
(***************************************************************************)
(* The values of the host's scene that a call of the export touches        *)
(*                                                                         *)
(* The scene has one used material and one exported mesh object with one   *)
(* modifier.  The call is one that passes the validation.                  *)
(***************************************************************************)
VARIABLES
    h_node,           \* the shader node of the material
    h_tag,            \* the vrm_shader property of the material
    h_hide_viewport,  \* of the mesh object
    h_hide_select,    \* of the mesh object
    h_modifier,       \* the modifier of the mesh object: its type and show_viewport
    h_active,         \* view_layer.objects.active
    h_before,         \* the host's values when the call began
    h_pc

hostVars ==
    <<h_node, h_tag, h_hide_viewport, h_hide_select, h_modifier, h_active, h_before, h_pc>>

SceneObjects == {"mesh", "armature"}
Modifiers == [type : {"ARMATURE", "SUBSURF"}, show_viewport : BOOLEAN]

\* the values of the host that the claim names
HostValues ==
    [vrm_shader |-> h_tag,
     hide_viewport |-> h_hide_viewport,
     hide_select |-> h_hide_select,
     show_viewport |-> h_modifier.show_viewport,
     active |-> h_active]

HostInit ==
    /\ h_node \in ShaderNodes
    /\ h_tag \in SupportedShaders \cup {NoTag}
    /\ h_hide_viewport \in BOOLEAN
    /\ h_hide_select \in BOOLEAN
    /\ h_modifier \in Modifiers
    /\ h_active \in SceneObjects
    /\ h_before = <<>>
    /\ h_pc = "idle"

HostIdle ==
    /\ h_node = <<>>
    /\ h_tag = NoTag
    /\ h_hide_viewport = FALSE
    /\ h_hide_select = FALSE
    /\ h_modifier = <<>>
    /\ h_active = ""
    /\ h_before = <<>>
    /\ h_pc = "idle"

\* execute calls GlbObj and convert_bpy2glb
HostCall ==
    /\ h_pc = "idle"
    /\ h_before' = HostValues
    /\ h_pc' = "image_to_bin"
    /\ UNCHANGED <<h_node, h_tag, h_hide_viewport, h_hide_select, h_modifier, h_active>>

\* image_to_bin: the material is tagged with the kind of its node
HostImageToBin ==
    /\ h_pc = "image_to_bin"
    /\ h_tag' = TagAfterImageToBin(h_node, h_tag)
    /\ h_pc' = "mesh_to_bin_and_dic"
    /\ UNCHANGED <<h_node, h_hide_viewport, h_hide_select, h_modifier, h_active, h_before>>

\* the modifier while the mesh is evaluated: an ARMATURE modifier of a skinned
\* mesh is not shown
ModifierWhileEvaluated(modifier, skinned) ==
    IF skinned /\ modifier.type = "ARMATURE"
    THEN [modifier EXCEPT !.show_viewport = FALSE]
    ELSE modifier

\* the modifier after the evaluation: show_viewport is set back
ModifierRestored(modifier, evaluated, skinned) ==
    IF skinned /\ modifier.type = "ARMATURE"
    THEN [evaluated EXCEPT !.show_viewport = modifier.show_viewport]
    ELSE evaluated

\* mesh_to_bin_and_dic, for the mesh object: the modifiers, the flags and the
\* active object
HostMesh ==
    /\ h_pc = "mesh_to_bin_and_dic"
    /\ \E skinned \in BOOLEAN :
        \* a mesh with an ARMATURE modifier is a skinned one
        /\ h_modifier.type = "ARMATURE" => skinned
        /\ h_modifier' =
               ModifierRestored(h_modifier, ModifierWhileEvaluated(h_modifier, skinned), skinned)
    /\ h_hide_viewport' = FALSE
    /\ h_hide_select' = FALSE
    /\ h_active' = "mesh"
    /\ h_pc' = "vrm_meta_to_dic"
    /\ UNCHANGED <<h_node, h_tag, h_before>>

\* the rest of the call, which writes to no value of the host
HostReturn ==
    /\ h_pc = "vrm_meta_to_dic"
    /\ h_pc' = "returned"
    /\ UNCHANGED <<h_node, h_tag, h_hide_viewport, h_hide_select, h_modifier, h_active,
                   h_before>>

-----------------------------------------------------------------------------
(***************************************************************************)
(* Claims about the host's scene                                           *)
(***************************************************************************)
\* C20: the export only reads the host's scene: after a call the material
\* properties, the visibility and selectability flags of the mesh objects, the
\* visibility flags of the modifiers and the active object are what they were
\* before the call.
C20_Original == h_pc = "returned" => HostValues = h_before
-----------------------------------------------------------------------------
(***************************************************************************)
(* make_mtoon_unversioned_extension_dic                                    *)
(*                                                                         *)
(* One material with an MToon shader node.  A number is a count of         *)
(* quarters, so that 0.25, 0.5 and 0.75 and the ties of round() are there. *)
(* A value of one of the dictionaries is a record of its kind and itself.  *)
(***************************************************************************)
VARIABLES
    t_version,           \* self.vrm_version
    t_blend_method,      \* b_mat.blend_method
    t_culling,           \* b_mat.use_backface_culling
    t_floats,            \* the float sockets of the node that have a value
    t_vectors,           \* the colour sockets of the node that exist
    t_textures,          \* the texture sockets of the node that are linked
    outline_width_mode,
    outline_color_mode,
    mtoon_float_dic,
    mtoon_vector_dic,
    mtoon_texture_dic,
    keyword_map,
    mt_prop,             \* mtoon_ext_dic["properties"]
    pbr_extensions,      \* the keys of pbr_dic["extensions"]
    t_exc,
    t_pc

mtoonVars ==
    <<t_version, t_blend_method, t_culling, t_floats, t_vectors, t_textures,
      outline_width_mode, outline_color_mode, mtoon_float_dic, mtoon_vector_dic,
      mtoon_texture_dic, keyword_map, mt_prop, pbr_extensions, t_exc, t_pc>>

Num(q) == [kind |-> "num", val |-> q]
Whole(n) == [kind |-> "num", val |-> 4 * n]
NaN == [kind |-> "nan", val |-> 0]
Null == [kind |-> "null", val |-> 0]
Str(s) == [kind |-> "str", val |-> s]
Bool(b) == [kind |-> "bool", val |-> b]
Vec(v) == [kind |-> "vec", val |-> v]
IsNull(x) == x.kind = "null"

Min(a, b) == IF a <= b THEN a ELSE b

\* round(x) of Python: the nearest integer, a tie goes to the even one
PyRound(q) ==
    LET f == q \div 4
        r == q % 4
    IN  IF r < 2 THEN f
        ELSE IF r > 2 THEN f + 1
        ELSE IF f % 2 = 0 THEN f ELSE f + 1

\* math.floor(x)
Floor(q) == q \div 4

\* a mode that is only kept from going below zero
ClampModeFromBelow(q, hi) == Max(PyRound(q), 0)

\* min(max(round(float_val), 0), hi)
ClampMode(q, hi) == Min(Max(PyRound(q), 0), hi)

\* d[k] = v and d.get(k)
DictSet(d, k, v) == [x \in DOMAIN d \cup {k} |-> IF x = k THEN v ELSE d[x]]
DictGet(d, k) == IF k \in DOMAIN d THEN d[k] ELSE Null
EmptyDict == [x \in {} |-> Null]

\* vrm_types.MaterialMtoon.float_props_exchange_dic, the entries that have
\* a socket, in the order of the dictionary
float_props_exchange_dic ==
    << <<"_Cutoff", "CutoffRate">>,
       <<"_BumpScale", "BumpScale">>,
       <<"_ReceiveShadowRate", "ReceiveShadowRate">>,
       <<"_ShadeShift", "ShadeShift">>,
       <<"_ShadeToony", "ShadeToony">>,
       <<"_RimLightingMix", "RimLightingMix">>,
       <<"_RimFresnelPower", "RimFresnelPower">>,
       <<"_RimLift", "RimLift">>,
       <<"_ShadingGradeRate", "ShadingGradeRate">>,
       <<"_LightColorAttenuation", "LightColorAttenuation">>,
       <<"_IndirectLightIntensity", "IndirectLightIntensity">>,
       <<"_OutlineWidth", "OutlineWidth">>,
       <<"_OutlineScaledMaxDistance", "OutlineScaleMaxDistance">>,
       <<"_OutlineLightingMix", "OutlineLightingMix">>,
       <<"_UvAnimScrollX", "UV_Scroll_X">>,
       <<"_UvAnimScrollY", "UV_Scroll_Y">>,
       <<"_UvAnimRotation", "UV_Scroll_Rotation">>,
       <<"_OutlineWidthMode", "OutlineWidthMode">>,
       <<"_OutlineColorMode", "OutlineColorMode">> >>

texture_kind_exchange_dic ==
    << <<"_MainTex", "MainTexture">>,
       <<"_ShadeTexture", "ShadeTexture">>,
       <<"_BumpMap", "NomalmapTexture">>,
       <<"_ReceiveShadowTexture", "ReceiveShadow_Texture">>,
       <<"_ShadingGradeTexture", "ShadingGradeTexture">>,
       <<"_EmissionMap", "Emission_Texture">>,
       <<"_SphereAdd", "SphereAddTexture">>,
       <<"_RimTexture", "RimTexture">>,
       <<"_OutlineWidthTexture", "OutlineWidthTexture">>,
       <<"_UvAnimMaskTexture", "UV_Animation_Mask_Texture">> >>

vector_base_props_exchange_dic ==
    << <<"_Color", "DiffuseColor">>,
       <<"_ShadeColor", "ShadeColor">>,
       <<"_EmissionColor", "EmissionColor">>,
       <<"_RimColor", "RimColor">>,
       <<"_OutlineColor", "OutlineColor">> >>

KeysOf(dic) == {dic[i][1] : i \in DOMAIN dic}
SocketsOf(dic) == {dic[i][2] : i \in DOMAIN dic}
SocketOf(dic, key) == Value({dic[i][2] : i \in {j \in DOMAIN dic : dic[j][1] = key}})

\* the sockets whose values the cases are about, and the values they take
ModeSockets == {"OutlineWidthMode", "OutlineColorMode", "OutlineLightingMix", "CutoffRate"}
NoSocket == [kind |-> "none", val |-> 0]
WidthInputs == {NoSocket, NaN} \cup {Num(q) : q \in {0 - 6, 0 - 2, 2, 3, 4, 6, 7, 10, 14}}
ColorInputs == {NoSocket} \cup {Num(q) : q \in {0 - 2, 2, 3, 4, 9}}
LightingInputs == {NoSocket} \cup {Num(q) : q \in {0 - 4, 0, 2, 4, 8}}
CutoffInputs == {NoSocket, Num(1)}
alpha_threshold == Num(2)

\* the float sockets of a node: the four above as chosen, the others either
\* all there with the value 1.0 or all missing
FloatSockets(width, color, lighting, cutoff, others) ==
    LET chosen == [s \in ModeSockets |->
                      IF s = "OutlineWidthMode" THEN width
                      ELSE IF s = "OutlineColorMode" THEN color
                      ELSE IF s = "OutlineLightingMix" THEN lighting
                      ELSE cutoff]
        there == {s \in ModeSockets : chosen[s] # NoSocket}
                    \cup (IF others THEN SocketsOf(float_props_exchange_dic) \ ModeSockets ELSE {})
    IN  [s \in there |-> IF s \in ModeSockets THEN chosen[s] ELSE Whole(1)]

MToonInit ==
    /\ t_version \in Versions
    /\ t_blend_method \in BlendMethods
    /\ t_culling \in BOOLEAN
    /\ \E width \in WidthInputs, color \in ColorInputs, lighting \in LightingInputs,
          cutoff \in CutoffInputs, others \in BOOLEAN :
            /\ t_floats = FloatSockets(width, color, lighting, cutoff, others)
            /\ t_vectors = IF others THEN SocketsOf(vector_base_props_exchange_dic)
                                     ELSE {"DiffuseColor"}
    /\ t_textures \in {{}, {"MainTexture", "NomalmapTexture"}}
    /\ outline_width_mode = 0
    /\ outline_color_mode = 0
    /\ mtoon_float_dic = EmptyDict
    /\ mtoon_vector_dic = EmptyDict
    /\ mtoon_texture_dic = EmptyDict
    /\ keyword_map = EmptyDict
    /\ mt_prop = EmptyDict
    /\ pbr_extensions = {}
    /\ t_exc = ""
    /\ t_pc = "call"

MToonIdle ==
    /\ t_version = <<>>
    /\ t_blend_method = "OPAQUE"
    /\ t_culling = FALSE
    /\ t_floats = EmptyDict
    /\ t_vectors = {}
    /\ t_textures = {}
    /\ outline_width_mode = 0
    /\ outline_color_mode = 0
    /\ mtoon_float_dic = EmptyDict
    /\ mtoon_vector_dic = EmptyDict
    /\ mtoon_texture_dic = EmptyDict
    /\ keyword_map = EmptyDict
    /\ mt_prop = EmptyDict
    /\ pbr_extensions = {}
    /\ t_exc = ""
    /\ t_pc = "idle"

\* get_float_value(mtoon_shader_node, float_prop)
get_float_value(float_prop) == DictGet(t_floats, float_prop)

\* round() raises ValueError for a NaN
RoundRaises ==
    \E s \in {"OutlineWidthMode", "OutlineColorMode"} : get_float_value(s) = NaN

\* the mode a socket gives, 0 without the socket
ModeOf(float_prop, hi) ==
    IF get_float_value(float_prop) = Null THEN 0
    ELSE ClampMode(get_float_value(float_prop).val, hi)

\* mtoon_float_dic after the loop over float_props_exchange_dic
FloatDicOf(width_mode, color_mode) ==
    [k \in {key \in KeysOf(float_props_exchange_dic) :
                SocketOf(float_props_exchange_dic, key) \in DOMAIN t_floats} |->
        IF k = "_OutlineWidthMode" THEN Whole(width_mode)
        ELSE IF k = "_OutlineColorMode" THEN Whole(color_mode)
        ELSE get_float_value(SocketOf(float_props_exchange_dic, k))]

\* outline_keyword_set(width_world, width_screen, color_fixed, color_mixed)
outline_keyword_set(width_world, width_screen, color_fixed, color_mixed) ==
    LET width == IF width_world THEN {"MTOON_OUTLINE_WIDTH_WORLD"}
                 ELSE IF width_screen THEN {"MTOON_OUTLINE_WIDTH_SCREEN"}
                 ELSE {}
        color == IF color_fixed THEN {"MTOON_OUTLINE_COLOR_FIXED"}
                 ELSE IF color_mixed THEN {"MTOON_OUTLINE_COLOR_MIXED"}
                 ELSE {}
    IN  [k \in width \cup color |-> TRUE]

\* the keywords the two modes give
OutlineKeywords(width_mode, color_mode) ==
    IF width_mode < 1 THEN outline_keyword_set(FALSE, FALSE, FALSE, FALSE)
    ELSE IF width_mode < 2
    THEN IF color_mode < 1 THEN outline_keyword_set(TRUE, FALSE, TRUE, FALSE)
         ELSE outline_keyword_set(TRUE, FALSE, FALSE, TRUE)
    ELSE IF color_mode < 1 THEN outline_keyword_set(FALSE, TRUE, TRUE, FALSE)
         ELSE outline_keyword_set(FALSE, TRUE, FALSE, TRUE)

\* the index add_texture returns for a linked socket: each has an image
\* and a sampler of its own
TextureIndex(key) ==
    Cardinality({i \in DOMAIN texture_kind_exchange_dic :
        /\ texture_kind_exchange_dic[i][2] \in t_textures
        /\ \E j \in DOMAIN texture_kind_exchange_dic :
              i < j /\ texture_kind_exchange_dic[j][1] = key})

LinkedTextureKeys ==
    {key \in KeysOf(texture_kind_exchange_dic) :
        SocketOf(texture_kind_exchange_dic, key) \in t_textures}

\* material_prop_setter(...) of the blend method, and the keys set after it
BlendMode == IF t_blend_method = "OPAQUE" THEN 0 ELSE IF t_blend_method = "CLIP" THEN 1 ELSE 2

FloatDicAfterBlend(d) ==
    LET blend == [k \in {"_BlendMode", "_SrcBlend", "_DstBlend", "_ZWrite"} |->
                    IF k = "_BlendMode" THEN Whole(BlendMode)
                    ELSE IF k = "_SrcBlend" THEN Whole(IF BlendMode = 2 THEN 5 ELSE 1)
                    ELSE IF k = "_DstBlend" THEN Whole(IF BlendMode = 2 THEN 10 ELSE 0)
                    ELSE Whole(IF BlendMode = 2 THEN 0 ELSE 1)]
        cutoff == IF t_blend_method = "CLIP" THEN [k \in {"_Cutoff"} |-> alpha_threshold]
                  ELSE EmptyDict
        rest == [k \in {"_MToonVersion", "_CullMode", "_OutlineCullMode", "_DebugMode"} |->
                    IF k = "_MToonVersion" THEN Whole(32)
                    ELSE IF k = "_CullMode" THEN Whole(IF t_culling THEN 2 ELSE 0)
                    ELSE IF k = "_OutlineCullMode" THEN Whole(1)
                    ELSE Whole(0)]
    IN  rest @@ cutoff @@ blend @@ d

KeywordsAfterBlend(k) ==
    LET alphatest == IF t_blend_method = "CLIP" THEN [x \in {"_ALPHATEST_ON"} |-> TRUE]
                     ELSE EmptyDict
        normalmap == IF "NomalmapTexture" \in t_textures THEN [x \in {"_NORMALMAP"} |-> TRUE]
                     ELSE EmptyDict
        fixed == [x \in {"_ALPHABLEND_ON", "_ALPHAPREMULTIPLY_ON", "MTOON_DEBUG_NORMAL",
                         "MTOON_DEBUG_LITSHADERATE"} |->
                    x = "_ALPHABLEND_ON" /\ t_blend_method \notin {"OPAQUE", "CLIP"}]
    IN  normalmap @@ fixed @@ alphatest @@ k

\* the keys of pbr_dic["extensions"] that pbr_fallback returns, unlit being
\* left at its default
FallbackExtensions == {"KHR_materials_unlit"}

\* Lines 418-610: the dictionaries of the legacy schema and the fallback.
MToonLegacy ==
    /\ t_pc = "call"
    /\ IF RoundRaises
       THEN /\ t_pc' = "raise"
            /\ t_exc' = "ValueError"
            /\ UNCHANGED <<outline_width_mode, outline_color_mode, mtoon_float_dic,
                           mtoon_vector_dic, mtoon_texture_dic, keyword_map, pbr_extensions>>
       ELSE \E width_mode \in {ModeOf("OutlineWidthMode", 2)},
               color_mode \in {ModeOf("OutlineColorMode", 1)} :
            /\ outline_width_mode' = width_mode
            /\ outline_color_mode' = color_mode
            /\ mtoon_float_dic' = FloatDicAfterBlend(FloatDicOf(width_mode, color_mode))
            /\ keyword_map' = KeywordsAfterBlend(OutlineKeywords(width_mode, color_mode))
            /\ mtoon_vector_dic' =
                    [k \in {key \in KeysOf(vector_base_props_exchange_dic) :
                                SocketOf(vector_base_props_exchange_dic, key) \in t_vectors}
                            \cup LinkedTextureKeys |->
                        IF k \in LinkedTextureKeys THEN Vec(<<0, 0, 1, 1>>)
                        ELSE Vec(<<4, 4, 4, 4>>)]
            /\ mtoon_texture_dic' = [k \in LinkedTextureKeys |-> Whole(TextureIndex(k))]
            /\ pbr_extensions' = FallbackExtensions
            /\ t_pc' = "legacy"
            /\ UNCHANGED t_exc
    /\ UNCHANGED <<t_version, t_blend_method, t_culling, t_floats, t_vectors, t_textures, mt_prop>>

\* the properties of the newer schema that are a get() of a dictionary
FloatProperties ==
    << <<"cutoutThresholdFactor", "_Cutoff">>,
       <<"shadingShiftFactor", "_ShadeShift">>,
       <<"shadingToonyFactor", "_ShadeToony">>,
       <<"shadowReceiveMultiplierFactor", "_ReceiveShadowRate">>,
       <<"litAndShadeMixingMultiplierFactor", "_ShadingGradeRate">>,
       <<"lightColorAttenuationFactor", "_LightColorAttenuation">>,
       <<"giIntensityFactor", "_IndirectLightIntensity">>,
       <<"normalScaleFactor", "_BumpScale">>,
       <<"rimLightingMixFactor", "_RimLightingMix">>,
       <<"rimFresnelPowerFactor", "_RimFresnelPower">>,
       <<"rimLiftFactor", "_RimLift">>,
       <<"outlineScaledMaxDistanceFactor", "_OutlineScaledMaxDistance">>,
       <<"outlineFactor", "_OutlineWidth">>,
       <<"outlineLightingMixFactor", "OutlineLightingMix">>,
       <<"uvAnimationScrollXSpeedFactor", "_UvAnimScrollX">>,
       <<"uvAnimationScrollYSpeedFactor", "_UvAnimScrollY">>,
       <<"uvAnimationRotationSpeedFactor", "_UvAnimRotation">> >>

VectorProperties ==
    << <<"litFactor", "_Color">>,
       <<"shadeFactor", "_ShadeColor">>,
       <<"emissionFactor", "_EmissionColor">>,
       <<"rimFactor", "_RimColor">>,
       <<"outlineWidthFactor", "_OutlineColor">> >>

TextureProperties ==
    << <<"litMultiplyTexture", "_MainTex">>,
       <<"shadeMultiplyTexture", "_ShadeTexture">>,
       <<"shadowReceiveMultiplierMultiplyTexture", "_ReceiveShadowTexture">>,
       <<"litAndShadeMixingMultiplierMultiplyTexture", "_ShadingGradeTexture">>,
       <<"normalTexture", "_BumpMap">>,
       <<"emissionMultiplyTexture", "_EmissionMap">>,
       <<"additiveTexture", "_SphereAdd">>,
       <<"rimMultiplyTexture", "_RimTexture">>,
       <<"outlineWidthMultiplyTexture", "_OutlineWidthTexture">>,
       <<"uvAnimationMaskTexture", "_UvAnimMaskTexture">> >>

\* mt_prop[name] = dic.get(key) for every pair of the table
Gets(table, dic) == [name \in KeysOf(table) |-> DictGet(dic, SocketOf(table, name))]

\* the index floor(mtoon_float_dic.get(key, 0)) of a list
ListIndex(key) ==
    IF key \in DOMAIN mtoon_float_dic THEN Floor(mtoon_float_dic[key].val) ELSE 0

\* list[index] raises IndexError outside -len .. len - 1
IndexRaises(index, len) == index >= len \/ index < 0 - len

\* list[index], a negative index counts from the end
ListItem(list, index) == list[(IF index < 0 THEN index + Len(list) ELSE index) + 1]

\* the properties with the value None, none of them
NoGarbage(prop) == {}

\* garbage_list
garbage_list(prop) == {k \in DOMAIN prop : IsNull(prop[k])}

\* mt_prop before the None values are popped
PropertiesOf ==
    LET blendmode == DictGet(mtoon_float_dic, "_BlendMode")
        uv_transforms == IF "_MainTex" \in DOMAIN mtoon_vector_dic
                         THEN mtoon_vector_dic["_MainTex"].val
                         ELSE <<0, 0, 1, 1>>
        named ==
            [k \in {"version", "renderMode", "cullMode", "renderQueueOffsetNumber",
                    "outlineWidthMode", "outlineColorMode",
                    "mainTextureLeftBottomOriginOffset",
                    "mainTextureLeftBottomOriginScale"} |->
                IF k = "version" THEN Str("3.2")
                ELSE IF k = "renderMode"
                THEN Str(IF blendmode = Whole(0) THEN "opaque"
                         ELSE IF blendmode = Whole(1) THEN "cutout"
                         ELSE "transparent")
                ELSE IF k = "cullMode"
                THEN (IF t_culling THEN Bool(FALSE) ELSE Str("off"))
                ELSE IF k = "renderQueueOffsetNumber" THEN Whole(0)
                ELSE IF k = "outlineWidthMode"
                THEN Str(ListItem(<<"none", "worldCoordinates", "screenCoordinates">>,
                                  ListIndex("_OutlineWidthMode")))
                ELSE IF k = "outlineColorMode"
                THEN Str(ListItem(<<"fixedColor", "mixedLighting">>,
                                  ListIndex("_OutlineLightingMix")))
                ELSE IF k = "mainTextureLeftBottomOriginOffset"
                THEN Vec(SubSeq(uv_transforms, 1, 2))
                ELSE Vec(SubSeq(uv_transforms, 3, 4))]
    IN  named @@ Gets(FloatProperties, mtoon_float_dic)
              @@ Gets(VectorProperties, mtoon_vector_dic)
              @@ Gets(TextureProperties, mtoon_texture_dic)

\* mt_prop.pop(garbage) for every garbage
Popped(prop, garbage) == [k \in DOMAIN prop \ garbage |-> prop[k]]

\* Lines 611-721: the block of the newer schema, and the return.
MToonVersioned ==
    /\ t_pc = "legacy"
    /\ IF StartsWith(t_version, NewerPrefix)
       THEN IF \/ IndexRaises(ListIndex("_OutlineWidthMode"), 3)
               \/ IndexRaises(ListIndex("_OutlineLightingMix"), 2)
            THEN /\ t_pc' = "raise"
                 /\ t_exc' = "IndexError"
                 /\ UNCHANGED <<mt_prop, pbr_extensions>>
            ELSE /\ mt_prop' = Popped(PropertiesOf, garbage_list(PropertiesOf))
                 /\ pbr_extensions' = pbr_extensions \cup {"VRMC_materials_mtoon"}
                 /\ t_pc' = "done"
                 /\ UNCHANGED t_exc
       ELSE /\ t_pc' = "done"
            /\ UNCHANGED <<mt_prop, pbr_extensions, t_exc>>
    /\ UNCHANGED <<t_version, t_blend_method, t_culling, t_floats, t_vectors, t_textures,
                   outline_width_mode, outline_color_mode, mtoon_float_dic,
                   mtoon_vector_dic, mtoon_texture_dic, keyword_map>>

-----------------------------------------------------------------------------
(***************************************************************************)
(* Claims about the MToon extension                                        *)
(***************************************************************************)
WidthKeywords == {"MTOON_OUTLINE_WIDTH_WORLD", "MTOON_OUTLINE_WIDTH_SCREEN"}
ColorKeywords == {"MTOON_OUTLINE_COLOR_FIXED", "MTOON_OUTLINE_COLOR_MIXED"}

\* the keywords of a set the map holds as set
SetKeywords(keys) == {k \in keys \cap DOMAIN keyword_map : keyword_map[k]}

\* the mode a key of floatProperties is exported with, `otherwise` without it
ExportedMode(key, otherwise) ==
    IF key \in DOMAIN mtoon_float_dic THEN mtoon_float_dic[key] ELSE Whole(otherwise)

\* C22: whatever values the sockets hold, the exported outline width mode
\* is 0, 1 or 2 and the outline colour mode 0 or 1; the keyword map holds
\* at most one width keyword and at most one colour keyword; with the width
\* mode 0 it holds no outline keyword, with the width mode 1 or 2 exactly
\* one width keyword (WORLD for 1, SCREEN for 2) and exactly one colour
\* keyword (FIXED for colour mode 0, MIXED for 1).
C22_OutlineModesAndKeywords ==
    t_pc \in {"legacy", "done"} =>
        /\ outline_width_mode \in 0..2
        /\ outline_color_mode \in 0..1
        /\ ExportedMode("_OutlineWidthMode", 0) = Whole(outline_width_mode)
        /\ ExportedMode("_OutlineColorMode", 0) = Whole(outline_color_mode)
        /\ DOMAIN keyword_map \cap WidthKeywords = SetKeywords(WidthKeywords)
        /\ DOMAIN keyword_map \cap ColorKeywords = SetKeywords(ColorKeywords)
        /\ Cardinality(SetKeywords(WidthKeywords)) <= 1
        /\ Cardinality(SetKeywords(ColorKeywords)) <= 1
        /\ outline_width_mode = 0 => SetKeywords(WidthKeywords \cup ColorKeywords) = {}
        /\ outline_width_mode = 1 => SetKeywords(WidthKeywords) = {"MTOON_OUTLINE_WIDTH_WORLD"}
        /\ outline_width_mode = 2 => SetKeywords(WidthKeywords) = {"MTOON_OUTLINE_WIDTH_SCREEN"}
        /\ (outline_width_mode >= 1 /\ outline_color_mode = 0) =>
                SetKeywords(ColorKeywords) = {"MTOON_OUTLINE_COLOR_FIXED"}
        /\ (outline_width_mode >= 1 /\ outline_color_mode = 1) =>
                SetKeywords(ColorKeywords) = {"MTOON_OUTLINE_COLOR_MIXED"}

\* C22 witness: a width socket of 3.5 and a colour socket of 2.25 have
\* given the modes 2 and 1 and the keywords SCREEN and MIXED.
C22_Witness ==
    /\ t_pc = "done"
    /\ get_float_value("OutlineWidthMode") = Num(14)
    /\ get_float_value("OutlineColorMode") = Num(9)
    /\ outline_width_mode = 2
    /\ outline_color_mode = 1
    /\ SetKeywords(WidthKeywords \cup ColorKeywords) =
            {"MTOON_OUTLINE_WIDTH_SCREEN", "MTOON_OUTLINE_COLOR_MIXED"}

\* the properties of the newer schema whose dictionary has no value for them
Underived ==
    {name \in KeysOf(FloatProperties) :
        SocketOf(FloatProperties, name) \notin DOMAIN mtoon_float_dic}
    \cup {name \in KeysOf(VectorProperties) :
        SocketOf(VectorProperties, name) \notin DOMAIN mtoon_vector_dic}
    \cup {name \in KeysOf(TextureProperties) :
        SocketOf(TextureProperties, name) \notin DOMAIN mtoon_texture_dic}

NewerBlockMade == t_pc = "done" /\ StartsWith(t_version, NewerPrefix)

\* C23: the block of the newer schema has renderMode opaque for the blend
\* method OPAQUE, cutout for CLIP and transparent for any other, has
\* outlineWidthMode none, worldCoordinates or screenCoordinates for the
\* clamped width mode 0, 1 or 2, holds no property whose value is None, and
\* a property whose dictionary has no value for it is absent from the block.
C23_NewerSchemaBlock ==
    NewerBlockMade =>
        /\ mt_prop["renderMode"] =
                Str(IF t_blend_method = "OPAQUE" THEN "opaque"
                    ELSE IF t_blend_method = "CLIP" THEN "cutout"
                    ELSE "transparent")
        /\ mt_prop["outlineWidthMode"] =
                Str(IF outline_width_mode = 0 THEN "none"
                    ELSE IF outline_width_mode = 1 THEN "worldCoordinates"
                    ELSE "screenCoordinates")
        /\ \A k \in DOMAIN mt_prop : ~IsNull(mt_prop[k])
        /\ Underived \cap DOMAIN mt_prop = {}
        /\ (KeysOf(FloatProperties) \cup KeysOf(VectorProperties)
                \cup KeysOf(TextureProperties)) \ Underived \subseteq DOMAIN mt_prop
        /\ "VRMC_materials_mtoon" \in pbr_extensions

\* C23 witness: a block of a material with the blend method CLIP and the
\* width mode 2, from which properties without a value have been left out.
C23_Witness ==
    /\ NewerBlockMade
    /\ t_blend_method = "CLIP"
    /\ outline_width_mode = 2
    /\ mt_prop["renderMode"] = Str("cutout")
    /\ mt_prop["outlineWidthMode"] = Str("screenCoordinates")
    /\ Underived # {}
    /\ "cutoutThresholdFactor" \in DOMAIN mt_prop
-----------------------------------------------------------------------------
(***************************************************************************)
(* The buffers, accessors and primitives of a mesh                         *)
(*                                                                         *)
(* The loop over the faces and their corners of mesh_to_bin_and_dic, in    *)
(* the order of bm.faces, with every buffer it appends to, and the         *)
(* accessors and primitives made after it.  An element of a buffer is      *)
(* what it was made from, not its bytes.                                   *)
(***************************************************************************)
VARIABLES
    p_uv,                 \* loop -> the first UV coordinate of the loop
    p_normal,             \* loop -> vert_normal of the loop
    p_material,           \* face -> face.material_index
    p_slots,              \* slot -> mat_id_dic[material_slot_dic[slot]]
    p_layers,             \* the number of UV layers
    p_shapes,             \* the number of shape keys after the Basis
    p_skin,               \* is_skin_mesh
    p_legacy,             \* vrm_version.startswith("0.")
    p_done,               \* the number of corners the loop has handled
    p_unique_vertex_dic,
    p_unique_vertex_id,
    p_bins,               \* the vertex buffers
    p_index_bin_dic,      \* primitive_index_bin_dic
    p_index_vertex_count, \* primitive_index_vertex_count
    p_accessors,          \* the counts GlbBin is given
    p_primitives,         \* primitive_list
    p_pc

primVars ==
    <<p_uv, p_normal, p_material, p_slots, p_layers, p_shapes, p_skin, p_legacy, p_done,
      p_unique_vertex_dic, p_unique_vertex_id, p_bins, p_index_bin_dic,
      p_index_vertex_count, p_accessors, p_primitives, p_pc>>

MaxLayers == 2
MaxShapes == 2

\* the corners in the order `for face in bm.faces: for loop in face.loops`
LoopAt(n) == <<((n - 1) \div 3) + 1, ((n - 1) % 3) + 1>>
LoopCount == 3 * MaxFaces

\* uv_list of a loop: the two coordinates of every layer
RECURSIVE UvList(_, _)
UvList(l, layers) == IF layers = 0 THEN <<>> ELSE UvList(l, layers - 1) \o <<p_uv[l], 0>>

\* vertex_key = (*uv_list, *vert_normal, loop.vert.index)
PrimVertexKey(l) == UvList(l, p_layers) \o p_normal[l] \o <<LoopVert(l)>>

\* the material of the first slot, whatever the face
MaterialOfFirstSlot(l) == p_slots[0]

\* mat_id_dic[material_slot_dic[face.material_index]]
MaterialOf(l) == p_slots[p_material[l[1]]]

\* the slots of a mesh: each with a material of its own, or all with one
SlotMaterials == {[s \in MaterialSlots |-> s], [s \in MaterialSlots |-> 0]}

EmptyBins(layers, shapes) ==
    [position |-> <<>>, normal |-> <<>>, joints |-> <<>>, weights |-> <<>>,
     texcoord |-> [k \in 1..layers |-> <<>>],
     shape_pos |-> [k \in 1..shapes |-> <<>>],
     shape_normal |-> [k \in 1..shapes |-> <<>>]]

NoAccessors == [x \in {} |-> 0]

PrimInit ==
    /\ p_uv \in {u \in [Loops -> {0, 1}] : \A l \in Loops : l[2] # 2 => u[l] = 0}
    /\ p_normal \in {n \in [Loops -> {NormalUp, NormalSide}] :
                        \A l \in Loops : l[2] # 2 => n[l] = NormalUp}
    /\ p_material \in [Faces -> MaterialSlots]
    /\ p_slots \in SlotMaterials
    /\ p_layers \in 0..MaxLayers
    /\ p_shapes \in 0..MaxShapes
    /\ p_skin \in BOOLEAN
    /\ p_legacy \in BOOLEAN
    /\ p_done = 0
    /\ p_unique_vertex_dic = NoAccessors
    /\ p_unique_vertex_id = 0
    /\ p_bins = EmptyBins(p_layers, p_shapes)
    /\ p_index_bin_dic = [mat \in {p_slots[s] : s \in MaterialSlots} |-> <<>>]
    /\ p_index_vertex_count = [mat \in {p_slots[s] : s \in MaterialSlots} |-> 0]
    /\ p_accessors = NoAccessors
    /\ p_primitives = <<>>
    /\ p_pc = "faces"

PrimIdle ==
    /\ p_uv = NoAccessors
    /\ p_normal = NoAccessors
    /\ p_material = NoAccessors
    /\ p_slots = NoAccessors
    /\ p_layers = 0
    /\ p_shapes = 0
    /\ p_skin = FALSE
    /\ p_legacy = FALSE
    /\ p_done = 0
    /\ p_unique_vertex_dic = NoAccessors
    /\ p_unique_vertex_id = 0
    /\ p_bins = NoAccessors
    /\ p_index_bin_dic = NoAccessors
    /\ p_index_vertex_count = NoAccessors
    /\ p_accessors = NoAccessors
    /\ p_primitives = <<>>
    /\ p_pc = "idle"

\* every buffer of a list of buffers with one more element
AppendedToAll(bins, element) == [k \in DOMAIN bins |-> Append(bins[k], element)]

\* the buffers after the lines 1102-1182 for a corner with a new key
BinsWith(bins, l) ==
    [position |-> Append(bins.position, LoopVert(l)),
     normal |-> Append(bins.normal, p_normal[l]),
     joints |-> IF p_skin THEN Append(bins.joints, LoopVert(l)) ELSE bins.joints,
     weights |-> IF p_skin THEN Append(bins.weights, LoopVert(l)) ELSE bins.weights,
     texcoord |-> AppendedToAll(bins.texcoord, <<p_uv[l], 1>>),
     shape_pos |-> AppendedToAll(bins.shape_pos, LoopVert(l)),
     shape_normal |-> IF p_legacy THEN AppendedToAll(bins.shape_normal, LoopVert(l))
                      ELSE bins.shape_normal]

\* the buffers when a corner of a known key is given a new element all the
\* same
BinsWithDuplicate(cached, bins, l) == BinsWith(bins, l)

\* the buffers after a corner: unchanged for a key that is cached
BinsAfter(cached, bins, l) == IF cached THEN bins ELSE BinsWith(bins, l)

\* The body of `for loop in face.loops` for the next corner.
PrimLoop ==
    /\ p_pc = "faces"
    /\ p_done < LoopCount
    /\ \E l \in {LoopAt(p_done + 1)} :
       \E vertex_key \in {PrimVertexKey(l)} :
       \E cached \in {vertex_key \in DOMAIN p_unique_vertex_dic} :
       \E index \in {IF cached THEN p_unique_vertex_dic[vertex_key] ELSE p_unique_vertex_id} :
        /\ p_unique_vertex_dic' =
               IF cached THEN p_unique_vertex_dic
               ELSE (vertex_key :> p_unique_vertex_id) @@ p_unique_vertex_dic
        /\ p_unique_vertex_id' = IF cached THEN p_unique_vertex_id ELSE p_unique_vertex_id + 1
        /\ p_bins' = BinsAfter(cached, p_bins, l)
        /\ p_index_bin_dic' = [p_index_bin_dic EXCEPT ![MaterialOf(l)] = Append(@, index)]
        /\ p_index_vertex_count' = [p_index_vertex_count EXCEPT ![MaterialOf(l)] = @ + 1]
    /\ p_done' = p_done + 1
    /\ UNCHANGED <<p_uv, p_normal, p_material, p_slots, p_layers, p_shapes, p_skin, p_legacy,
                   p_accessors, p_primitives, p_pc>>

\* the materials of the slots, in the order the dictionaries got their keys
RECURSIVE KeysInOrder(_, _)
KeysInOrder(slots, seen) ==
    IF slots = <<>> THEN <<>>
    ELSE (IF p_slots[Head(slots)] \in seen THEN <<>> ELSE <<p_slots[Head(slots)]>>)
             \o KeysInOrder(Tail(slots), seen \cup {p_slots[Head(slots)]})

\* the keys of primitive_glbs_dic: the materials whose index buffer is not b""
Indexed == SelectSeq(KeysInOrder(Ascending(MaterialSlots), {}),
                     LAMBDA mat : p_index_bin_dic[mat] # <<>>)

\* the attributes of a primitive
Attributes ==
    [names |-> {"POSITION", "NORMAL"} \cup (IF p_skin THEN {"JOINTS_0", "WEIGHTS_0"} ELSE {}),
     texcoords |-> p_layers]

\* Lines 1193-1331: the accessors and the primitives of the mesh.
PrimAccessors ==
    /\ p_pc = "faces"
    /\ p_done = LoopCount
    /\ p_accessors' =
           [index |-> [mat \in Elements(Indexed) |-> p_index_vertex_count[mat]],
            position |-> p_unique_vertex_id,
            normal |-> p_unique_vertex_id,
            texcoord |-> [k \in 1..p_layers |-> p_unique_vertex_id],
            joints |-> IF p_skin THEN p_unique_vertex_id ELSE Missing,
            weights |-> IF p_skin THEN p_unique_vertex_id ELSE Missing,
            morph_pos |-> [k \in 1..p_shapes |-> p_unique_vertex_id],
            morph_normal |-> [k \in 1..(IF p_legacy THEN p_shapes ELSE 0) |->
                                 p_unique_vertex_id]]
    /\ p_primitives' =
           [i \in 1..Len(Indexed) |->
               [material |-> Indexed[i],
                indices |-> Indexed[i],
                attributes |-> Attributes,
                targets |-> p_shapes]]
    /\ p_pc' = "done"
    /\ UNCHANGED <<p_uv, p_normal, p_material, p_slots, p_layers, p_shapes, p_skin, p_legacy,
                   p_done, p_unique_vertex_dic, p_unique_vertex_id, p_bins, p_index_bin_dic,
                   p_index_vertex_count>>

-----------------------------------------------------------------------------
(***************************************************************************)
(* Claims about the buffers of a mesh                                      *)
(***************************************************************************)
\* the keys of the corners handled so far
KeysSoFar == {PrimVertexKey(LoopAt(n)) : n \in 1..p_done}

\* the corners handled so far whose face has a material
CornersOf(mat) == {n \in 1..p_done : p_slots[p_material[LoopAt(n)[1]]] = mat}

\* C26: at the end of a mesh the position buffer, the normal buffer, the
\* buffer of every UV layer, of every morph target and, for a skinned mesh,
\* the joint and weight buffers hold one element per distinct key, and the
\* counts of their accessors are that number; the count of an index
\* accessor is the number of corners of the faces of its material; a
\* material of a slot has a primitive exactly when its index buffer is not
\* empty, and one only.
C26_OneElementPerKey ==
    p_pc = "done" =>
        \A keys \in {Cardinality(KeysSoFar)} :
            /\ Len(p_bins.position) = keys /\ p_accessors.position = keys
            /\ Len(p_bins.normal) = keys /\ p_accessors.normal = keys
            /\ DOMAIN p_bins.texcoord = 1..p_layers
            /\ DOMAIN p_accessors.texcoord = 1..p_layers
            /\ \A k \in 1..p_layers :
                   Len(p_bins.texcoord[k]) = keys /\ p_accessors.texcoord[k] = keys
            /\ DOMAIN p_bins.shape_pos = 1..p_shapes
            /\ DOMAIN p_accessors.morph_pos = 1..p_shapes
            /\ \A k \in 1..p_shapes :
                   Len(p_bins.shape_pos[k]) = keys /\ p_accessors.morph_pos[k] = keys
            /\ \A k \in DOMAIN p_accessors.morph_normal :
                   Len(p_bins.shape_normal[k]) = keys /\ p_accessors.morph_normal[k] = keys
            /\ p_skin =>
                   /\ Len(p_bins.joints) = keys /\ p_accessors.joints = keys
                   /\ Len(p_bins.weights) = keys /\ p_accessors.weights = keys
            /\ \A mat \in DOMAIN p_accessors.index :
                   /\ p_accessors.index[mat] = Cardinality(CornersOf(mat))
                   /\ Len(p_index_bin_dic[mat]) = Cardinality(CornersOf(mat))
            /\ \A s \in MaterialSlots :
                   /\ p_index_bin_dic[p_slots[s]] # <<>> <=> p_slots[s] \in DOMAIN p_accessors.index
                   /\ Cardinality({i \in 1..Len(p_primitives) :
                                      p_primitives[i].material = p_slots[s]})
                          = IF p_index_bin_dic[p_slots[s]] # <<>> THEN 1 ELSE 0

\* C26 witness: a skinned mesh with two UV layers and two morph targets, a
\* key shared by corners of two faces, and a slot whose material has no
\* face and no primitive.
C26_Witness ==
    /\ p_pc = "done"
    /\ p_skin /\ p_layers = 2 /\ p_shapes = 2
    /\ Cardinality(KeysSoFar) < LoopCount
    /\ Len(p_bins.position) < LoopCount
    /\ \E s \in MaterialSlots : p_index_bin_dic[p_slots[s]] = <<>>
    /\ Len(p_primitives) = 1

\* the first corner with the key of a corner
FirstWithKey(n) ==
    CHOOSE k \in 1..n :
        /\ PrimVertexKey(LoopAt(k)) = PrimVertexKey(LoopAt(n))
        /\ \A j \in 1..(k - 1) : PrimVertexKey(LoopAt(j)) # PrimVertexKey(LoopAt(n))

\* the index of the key of a corner: the number of keys that came before it
ExpectedIndex(n) == Cardinality({PrimVertexKey(LoopAt(k)) : k \in 1..(FirstWithKey(n) - 1)})

\* the indices of all the index buffers
IndicesWritten ==
    UNION {Elements(p_index_bin_dic[mat]) : mat \in DOMAIN p_index_bin_dic}

\* C27: at the end of a mesh every index of an index buffer is smaller
\* than the number of exported vertices and every exported vertex is in
\* some index buffer; the index buffer of a material is made of the indices
\* of the corners of the faces of that material, one per corner and in the
\* order of the corners, so that a corner has put one index into one
\* buffer, that of the material of its face.
C27_IndicesInRangeAndUsed ==
    p_pc = "done" =>
        /\ \A index \in IndicesWritten : index < p_accessors.position
        /\ \A index \in 0..(p_accessors.position - 1) : index \in IndicesWritten
        /\ \A mat \in DOMAIN p_index_bin_dic :
               \A corners \in {Ascending(CornersOf(mat))} :
                   p_index_bin_dic[mat] = [i \in 1..Len(corners) |-> ExpectedIndex(corners[i])]
        /\ \A n \in 1..LoopCount :
               Cardinality({mat \in DOMAIN p_index_bin_dic : n \in CornersOf(mat)}) = 1

\* C27 witness: two materials with a face each, and a vertex whose index
\* is in both index buffers.
C27_Witness ==
    /\ p_pc = "done"
    /\ \A mat \in DOMAIN p_index_bin_dic : p_index_bin_dic[mat] # <<>>
    /\ Cardinality(DOMAIN p_index_bin_dic) = 2
    /\ \E index \in 0..(p_unique_vertex_id - 1) :
           \A mat \in DOMAIN p_index_bin_dic : index \in Elements(p_index_bin_dic[mat])
    /\ p_unique_vertex_id < LoopCount
-----------------------------------------------------------------------------
(***************************************************************************)
(* The thumbnail: GlbObj.image_to_bin, the texture lists of                *)
(* GlbObj.material_to_dic, and the meta block of GlbObj.vrm_meta_to_dic    *)
(*                                                                         *)
(* An image is named by its place in bpy.data.images.  A material has one  *)
(* linked texture or none.  json_dic["samplers"] and json_dic["textures"]  *)
(* are keys that json_dic has or has not.                                  *)
(***************************************************************************)
VARIABLES
    th_materials,     \* per used material: its linked texture, or NoTexture
    th_thumbnail,     \* armature["texture"], Missing when there is no such key
    th_image_bins,    \* glb_bin_collector.image_bins: the images in order
    th_samplers,      \* json_dic["samplers"]
    th_textures,      \* json_dic["textures"]
    th_meta_texture,  \* vrm_meta_dic["texture"], Missing when not set
    th_exc,
    th_pc

thumbVars ==
    <<th_materials, th_thumbnail, th_image_bins, th_samplers, th_textures,
      th_meta_texture, th_exc, th_pc>>

\* the images a thumbnail may be: those of TexturePool and one that no
\* material uses
ThumbnailImages == {0, 1, 2}

\* a key json_dic does not have
NoKeyInDic == [present |-> FALSE, list |-> <<>>]
InDic(list) == [present |-> TRUE, list |-> list]

MaterialTextures ==
    UNION {[1..n -> TexturePool \cup {NoTexture}] : n \in 0..MaxMaterials}

ThumbInit ==
    /\ th_materials \in MaterialTextures
    /\ th_thumbnail \in ThumbnailImages \cup {Missing}
    /\ th_image_bins = <<>>
    /\ th_samplers = NoKeyInDic
    /\ th_textures = NoKeyInDic
    /\ th_meta_texture = Missing
    /\ th_exc = ""
    /\ th_pc = "images"

ThumbIdle ==
    /\ th_materials = <<>>
    /\ th_thumbnail = Missing
    /\ th_image_bins = <<>>
    /\ th_samplers = NoKeyInDic
    /\ th_textures = NoKeyInDic
    /\ th_meta_texture = Missing
    /\ th_exc = ""
    /\ th_pc = "idle"

\* used_images: the images of the linked textures and the thumbnail
used_images(materials, thumbnail) ==
    {materials[i].image : i \in {j \in DOMAIN materials : materials[j] # NoTexture}}
        \cup ({thumbnail} \ {Missing})

\* image_to_bin: one ImageBin per used image, in the order of bpy.data.images
ThumbImageToBin ==
    /\ th_pc = "images"
    /\ th_image_bins' = Ascending(used_images(th_materials, th_thumbnail))
    /\ th_pc' = "materials"
    /\ UNCHANGED <<th_materials, th_thumbnail, th_samplers, th_textures,
                   th_meta_texture, th_exc>>

\* the add_texture calls of the materials, with image_id_dic[image_name]
ThumbRequests(materials, image_bins) ==
    LET linked == SelectSeq(materials, LAMBDA tex : tex # NoTexture)
    IN  [i \in 1..Len(linked) |->
            [image |-> IndexOf(image_bins, linked[i].image),
             wrap |-> linked[i].wrap, filter |-> linked[i].filter]]

\* apply_texture_and_sampler_to_dic with both keys made whatever the counts
ApplyAlways(ts) ==
    [samplers |-> InDic([i \in 1..ts.sampler_count |->
                            [wrapS |-> KeyOf(ts.sampler_dic, i - 1)[1],
                             magFilter |-> KeyOf(ts.sampler_dic, i - 1)[2]]]),
     textures |-> InDic([i \in 1..ts.texture_count |->
                            [sampler |-> KeyOf(ts.texture_dic, i - 1)[2],
                             source |-> KeyOf(ts.texture_dic, i - 1)[1]]])]

\* apply_texture_and_sampler_to_dic: `if sampler_count > 0:` and
\* `if texture_count > 0:`
apply_texture_and_sampler_to_dic(ts) ==
    [samplers |-> IF ts.sampler_count > 0 THEN ApplyAlways(ts).samplers ELSE NoKeyInDic,
     textures |-> IF ts.texture_count > 0 THEN ApplyAlways(ts).textures ELSE NoKeyInDic]

\* material_to_dic: the texture requests of the materials and the two lists
ThumbMaterialToDic ==
    /\ th_pc = "materials"
    /\ \E added \in {AddTextures([sampler_dic |-> NoDic, texture_dic |-> NoDic,
                                  sampler_count |-> 0, texture_count |-> 0],
                                 ThumbRequests(th_materials, th_image_bins), <<>>)} :
        \E applied \in {apply_texture_and_sampler_to_dic(added.ts)} :
            /\ th_samplers' = applied.samplers
            /\ th_textures' = applied.textures
    /\ th_pc' = "meta"
    /\ UNCHANGED <<th_materials, th_thumbnail, th_image_bins, th_meta_texture, th_exc>>

\* the sampler of the thumbnail: 9729 and 10497
ThumbnailSampler == [wrapS |-> "REPEAT", magFilter |-> "LINEAR"]

\* thumbnail_index_list
thumbnail_index_list(image_bins, thumbnail) ==
    SelectSeq([i \in 1..Len(image_bins) |-> i - 1],
              LAMBDA i : image_bins[i + 1] = thumbnail)

\* vrm_meta_to_dic: `if "texture" in self.armature.keys():`
ThumbMeta ==
    /\ th_pc = "meta"
    /\ IF th_thumbnail = Missing \/ thumbnail_index_list(th_image_bins, th_thumbnail) = <<>>
       THEN /\ th_pc' = "done"
            /\ UNCHANGED <<th_samplers, th_textures, th_meta_texture, th_exc>>
       ELSE IF ~th_samplers.present \/ ~th_textures.present
       THEN /\ th_exc' = "KeyError"
            /\ th_pc' = "raise"
            /\ UNCHANGED <<th_samplers, th_textures, th_meta_texture>>
       ELSE /\ th_samplers' = InDic(Append(th_samplers.list, ThumbnailSampler))
            /\ th_textures' =
                   InDic(Append(th_textures.list,
                                [sampler |-> Len(th_samplers.list),
                                 source |-> thumbnail_index_list(th_image_bins,
                                                                 th_thumbnail)[1]]))
            /\ th_meta_texture' = Len(th_textures.list)
            /\ th_pc' = "done"
            /\ UNCHANGED th_exc
    /\ UNCHANGED <<th_materials, th_thumbnail, th_image_bins>>

-----------------------------------------------------------------------------
(***************************************************************************)
(* Claims about the thumbnail                                              *)
(***************************************************************************)
\* C30: when the armature names a thumbnail image the meta stage completes,
\* also for a scene whose materials use no texture, and the texture of the
\* meta block is the index of a texture whose source is the image index of
\* the thumbnail and whose sampler is a place of the sampler list.
C30_Original ==
    (th_pc \in {"done", "raise"} /\ th_thumbnail # Missing) =>
        /\ th_pc = "done"
        /\ th_meta_texture + 1 \in 1..Len(th_textures.list)
        /\ th_textures.list[th_meta_texture + 1].source =
               IndexOf(th_image_bins, th_thumbnail)
        /\ th_textures.list[th_meta_texture + 1].sampler + 1 \in 1..Len(th_samplers.list)

\* the same for the scenes in which a material uses a texture
C30_WithAMaterialTexture ==
    (th_pc \in {"done", "raise"} /\ th_thumbnail # Missing
        /\ \E i \in DOMAIN th_materials : th_materials[i] # NoTexture) =>
        /\ th_pc = "done"
        /\ th_meta_texture + 1 \in 1..Len(th_textures.list)
        /\ th_textures.list[th_meta_texture + 1].source =
               IndexOf(th_image_bins, th_thumbnail)
        /\ th_textures.list[th_meta_texture + 1].sampler + 1 \in 1..Len(th_samplers.list)
-----------------------------------------------------------------------------
(***************************************************************************)
(* Specifications: one per part of the program, the other parts idle       *)
(***************************************************************************)
vars == <<normVars, glbVars, meshVars, skinVars, matVars, expVars, metaVars, nodeVars,
    weightVars, hostVars, mtoonVars, primVars, thumbVars>>

InitNormalize == NormInit /\ GlbIdle /\ MeshIdle /\ SkinIdle /\ MatIdle /\ ExportIdle
    /\ MetaIdle /\ NodesIdle /\ WeightsIdle /\ HostIdle /\ MToonIdle /\ PrimIdle
    /\ ThumbIdle
OthersNormalize == <<glbVars, meshVars, skinVars, matVars, expVars, metaVars, nodeVars, weightVars, hostVars, mtoonVars, primVars, thumbVars>>
NextNormalize ==
    \/ NormCall /\ UNCHANGED OthersNormalize
    \/ NormRound /\ UNCHANGED OthersNormalize
SpecNormalize == InitNormalize /\ [][NextNormalize]_vars

InitContainer == GlbInit /\ NormIdle /\ MeshIdle /\ SkinIdle /\ MatIdle /\ ExportIdle
    /\ MetaIdle /\ NodesIdle /\ WeightsIdle /\ HostIdle /\ MToonIdle /\ PrimIdle
    /\ ThumbIdle
OthersContainer == <<normVars, meshVars, skinVars, matVars, expVars, metaVars, nodeVars, weightVars, hostVars, mtoonVars, primVars, thumbVars>>
NextContainer ==
    \/ Finalize /\ UNCHANGED OthersContainer
    \/ ParseGlb /\ UNCHANGED OthersContainer
SpecContainer == InitContainer /\ [][NextContainer]_vars

InitMesh == MeshInit /\ NormIdle /\ GlbIdle /\ SkinIdle /\ MatIdle /\ ExportIdle
    /\ MetaIdle /\ NodesIdle /\ WeightsIdle /\ HostIdle /\ MToonIdle /\ PrimIdle
    /\ ThumbIdle
OthersMesh == <<normVars, glbVars, skinVars, matVars, expVars, metaVars, nodeVars, weightVars, hostVars, mtoonVars, primVars, thumbVars>>
NextMesh ==
    \/ MeshLoop /\ UNCHANGED OthersMesh
    \/ MeshAccessors /\ UNCHANGED OthersMesh
SpecMesh == InitMesh /\ [][NextMesh]_vars

InitSkin == SkinInit /\ NormIdle /\ GlbIdle /\ MeshIdle /\ MatIdle /\ ExportIdle
    /\ MetaIdle /\ NodesIdle /\ WeightsIdle /\ HostIdle /\ MToonIdle /\ PrimIdle
    /\ ThumbIdle
OthersSkin == <<normVars, glbVars, meshVars, matVars, expVars, metaVars, nodeVars, weightVars, hostVars, mtoonVars, primVars, thumbVars>>
NextSkin ==
    \/ ArmatureToNodes /\ UNCHANGED OthersSkin
    \/ SkinVertex /\ UNCHANGED OthersSkin
SpecSkin == InitSkin /\ [][NextSkin]_vars

InitMaterial == MatInit /\ NormIdle /\ GlbIdle /\ MeshIdle /\ SkinIdle /\ ExportIdle
    /\ MetaIdle /\ NodesIdle /\ WeightsIdle /\ HostIdle /\ MToonIdle /\ PrimIdle
    /\ ThumbIdle
OthersMaterial == <<normVars, glbVars, meshVars, skinVars, expVars, metaVars, nodeVars, weightVars, hostVars, mtoonVars, primVars, thumbVars>>
NextMaterial ==
    \/ MaterialToDic /\ UNCHANGED OthersMaterial
    \/ ApplyTextureAndSampler /\ UNCHANGED OthersMaterial
SpecMaterial == InitMaterial /\ [][NextMaterial]_vars

InitExport == ExportInit /\ NormIdle /\ GlbIdle /\ MeshIdle /\ SkinIdle /\ MatIdle
    /\ MetaIdle /\ NodesIdle /\ WeightsIdle /\ HostIdle /\ MToonIdle /\ PrimIdle
    /\ ThumbIdle
OthersExport == <<normVars, glbVars, meshVars, skinVars, matVars, metaVars, nodeVars, weightVars, hostVars, mtoonVars, primVars, thumbVars>>
NextExport ==
    \/ Execute /\ UNCHANGED OthersExport
    \/ ImageToBin /\ UNCHANGED OthersExport
    \/ ExportMaterials /\ UNCHANGED OthersExport
    \/ OtherStage /\ UNCHANGED OthersExport
    \/ WriteFile /\ UNCHANGED OthersExport
    \/ HostEdit /\ UNCHANGED OthersExport
SpecExport == InitExport /\ [][NextExport]_vars

InitMeta == MetaInit /\ NormIdle /\ GlbIdle /\ MeshIdle /\ SkinIdle /\ MatIdle
    /\ ExportIdle /\ NodesIdle /\ WeightsIdle /\ HostIdle /\ MToonIdle /\ PrimIdle
    /\ ThumbIdle
OthersMeta == <<normVars, glbVars, meshVars, skinVars, matVars, expVars, nodeVars, weightVars, hostVars, mtoonVars, primVars, thumbVars>>
NextMeta ==
    \/ MetaArmature /\ UNCHANGED OthersMeta
    \/ MetaMaterials /\ UNCHANGED OthersMeta
    \/ MetaMesh /\ UNCHANGED OthersMeta
    \/ MetaHumanoid /\ UNCHANGED OthersMeta
    \/ MetaFirstPerson /\ UNCHANGED OthersMeta
    \/ MetaBlendShape /\ UNCHANGED OthersMeta
    \/ MetaColliders /\ UNCHANGED OthersMeta
    \/ MetaBoneGroups /\ UNCHANGED OthersMeta
    \/ MetaExtension /\ UNCHANGED OthersMeta
SpecMeta == InitMeta /\ [][NextMeta]_vars

InitNodes == NodesInit /\ NormIdle /\ GlbIdle /\ MeshIdle /\ SkinIdle /\ MatIdle
    /\ ExportIdle /\ MetaIdle /\ WeightsIdle /\ HostIdle /\ MToonIdle /\ PrimIdle
    /\ ThumbIdle
OthersNodes == <<normVars, glbVars, meshVars, skinVars, matVars, expVars, metaVars, weightVars, hostVars, mtoonVars, primVars, thumbVars>>
NextNodes ==
    \/ NodesArmature /\ UNCHANGED OthersNodes
    \/ NodesMesh /\ UNCHANGED OthersNodes
SpecNodes == InitNodes /\ [][NextNodes]_vars

InitWeights == WeightsInit /\ NormIdle /\ GlbIdle /\ MeshIdle /\ SkinIdle /\ MatIdle
    /\ ExportIdle /\ MetaIdle /\ NodesIdle /\ HostIdle /\ MToonIdle /\ PrimIdle
    /\ ThumbIdle
OthersWeights == <<normVars, glbVars, meshVars, skinVars, matVars, expVars, metaVars, nodeVars, hostVars, mtoonVars, primVars, thumbVars>>
NextWeights ==
    \/ WeightsArmature /\ UNCHANGED OthersWeights
    \/ WeightsVertex /\ UNCHANGED OthersWeights
SpecWeights == InitWeights /\ [][NextWeights]_vars

InitHost == HostInit /\ NormIdle /\ GlbIdle /\ MeshIdle /\ SkinIdle /\ MatIdle
    /\ ExportIdle /\ MetaIdle /\ NodesIdle /\ WeightsIdle /\ MToonIdle /\ PrimIdle
    /\ ThumbIdle
OthersHost == <<normVars, glbVars, meshVars, skinVars, matVars, expVars, metaVars, nodeVars, weightVars, mtoonVars, primVars, thumbVars>>
NextHost ==
    \/ HostCall /\ UNCHANGED OthersHost
    \/ HostImageToBin /\ UNCHANGED OthersHost
    \/ HostMesh /\ UNCHANGED OthersHost
    \/ HostReturn /\ UNCHANGED OthersHost
SpecHost == InitHost /\ [][NextHost]_vars

InitMToon == MToonInit /\ NormIdle /\ GlbIdle /\ MeshIdle /\ SkinIdle /\ MatIdle
    /\ ExportIdle /\ MetaIdle /\ NodesIdle /\ WeightsIdle /\ HostIdle /\ PrimIdle
    /\ ThumbIdle
OthersMToon == <<normVars, glbVars, meshVars, skinVars, matVars, expVars, metaVars, nodeVars, weightVars, hostVars, primVars, thumbVars>>
NextMToon ==
    \/ MToonLegacy /\ UNCHANGED OthersMToon
    \/ MToonVersioned /\ UNCHANGED OthersMToon
SpecMToon == InitMToon /\ [][NextMToon]_vars

InitPrim == PrimInit /\ NormIdle /\ GlbIdle /\ MeshIdle /\ SkinIdle /\ MatIdle
    /\ ExportIdle /\ MetaIdle /\ NodesIdle /\ WeightsIdle /\ HostIdle /\ MToonIdle
    /\ ThumbIdle
OthersPrim == <<normVars, glbVars, meshVars, skinVars, matVars, expVars, metaVars, nodeVars, weightVars, hostVars, mtoonVars, thumbVars>>
NextPrim ==
    \/ PrimLoop /\ UNCHANGED OthersPrim
    \/ PrimAccessors /\ UNCHANGED OthersPrim
SpecPrim == InitPrim /\ [][NextPrim]_vars

InitThumb == ThumbInit /\ NormIdle /\ GlbIdle /\ MeshIdle /\ SkinIdle /\ MatIdle
    /\ ExportIdle /\ MetaIdle /\ NodesIdle /\ WeightsIdle /\ HostIdle /\ MToonIdle
    /\ PrimIdle
OthersThumb == <<normVars, glbVars, meshVars, skinVars, matVars, expVars, metaVars, nodeVars, weightVars, hostVars, mtoonVars, primVars>>
NextThumb ==
    \/ ThumbImageToBin /\ UNCHANGED OthersThumb
    \/ ThumbMaterialToDic /\ UNCHANGED OthersThumb
    \/ ThumbMeta /\ UNCHANGED OthersThumb
SpecThumb == InitThumb /\ [][NextThumb]_vars

====
